---- MODULE Spec2Model ----
(***************************************************************************)
(* Model of the scan -> match -> replicate -> remove pipeline of            *)
(* solo-cheetah: one pipeline (startPipeline) with one scanner and one      *)
(* processor (upload stage, remove stage, error forwarder), the storage     *)
(* handlers the processor fans out to (handler.Put / runParallel with the   *)
(* local-directory and the object-store single-file puts), a producer that  *)
(* may rewrite or delete source files, and cancellation of the context.     *)
(*                                                                         *)
(* Paths are file names relative to the scan root.  A file's content is a  *)
(* version number 1..MaxContent (0: the file does not exist).              *)
(***************************************************************************)
EXTENDS Integers, Sequences, FiniteSets, TLC

\* ---------------------------------------------------------------- bounds
MaxCycles  == 2   \* scan cycles the supervisor may start
MaxFaults  == 1   \* failures the environment may inject (upload, copy, mkdir, remove)
MaxWrites  == 1   \* rewrites / deletions the producer may perform
MaxContent == 2   \* content versions of a file
MaxOutcomes == 2  \* outcomes of a backend result given to prepareRemovalCandidates
MaxBatch   == 2   \* batch sizes of the walker (0: unlimited)
MaxWorkers == 2   \* processors of a pipeline
MaxCounter == 10  \* highest counter of a sequentially named file
MaxPatterns == 2  \* patterns of a matcher configuration
MaxEnsures == 4   \* calls of ensureBucketExists on one handler

\* processor.go:20
DefaultMarkerFileCheckMaxAttempts == 3

\* part_007:268: attempts of the bucket bootstrap
BootstrapAttempts == 300

\* ---------------------------------------------------------------- values
Kinds     == {"local", "s3"}
MarkerExt == ".mf"
DataExt   == ".dat"
Exts      == {MarkerExt, DataExt}
Bases     == {"a", "b"}
Paths     == {b \o e : b \in Bases, e \in Exts}

NoErr  == <<>>
NoHit  == [Path |-> "", Size |-> 0]

\* byte-wise ascending order of the path names of the model
PathOrder == <<"a.dat", "a.mf", "b.dat", "b.mf">>

Rank(p) == CHOOSE i \in 1..Len(PathOrder) : PathOrder[i] = p

\* string comparison used by sort.Strings and by the walker's sorted listing
StrLess(p, q) == Rank(p) < Rank(q)

RECURSIVE SortStrings(_)
SortStrings(S) ==
    IF S = {} THEN <<>>
    ELSE LET m == CHOOSE x \in S : \A y \in S : x = y \/ StrLess(x, y)
         IN <<m>> \o SortStrings(S \ {m})

SeqToSet(s) == {s[i] : i \in 1..Len(s)}

\* fsx.SplitFilePath / fsx.CombineFilePath on the names of the model
BaseOf(p) == CHOOSE b \in Bases : \E e \in Exts : p = b \o e
ExtOf(p)  == CHOOSE e \in Exts : \E b \in Bases : p = b \o e
CombineFilePath(b, e) == b \o e

\* fsx.FileMD5: the digest of content version c (a digest is not the content)
FileMD5(c) == 10 + c

\* os.FileInfo.Size of a file holding content version c
SizeOf(c) == c

\* core.ComputeDestinationBucketPath for a file directly under the scan root
Prefix == "pfx"
ComputeDestinationBucketPath(p) == Prefix \o "/" \o p

DestKeys == {ComputeDestinationBucketPath(p) : p \in Paths}

\* ---------------------------------------------------------------- configuration
\* storages: prepareProcessors appends localDir, then s3
StorageChoices == {<<>>, <<"local">>, <<"s3">>, <<"local", "s3">>}
\* patterns of the single basic matcher of the processor
PatternChoices == {<<>>, <<DataExt>>, <<DataExt, MarkerExt>>, <<"*">>}

VARIABLES
    cfg,        \* pipeline configuration and build, fixed by Init
    fs,         \* local files: path -> content version, 0 if absent
    remote,     \* per backend kind: destination key -> content version, 0 if absent
    cancelled,  \* ctx.Done() is closed
    signalled,  \* history: the cancellation came from outside (SIGINT/SIGTERM)
    sibling,    \* another pipeline of the same run: "none", "running", "returned"
    timer,      \* the timer of the delay in progress: "idle", "running", "fired"
    faults,     \* failures the environment may still inject
    writes,     \* producer operations still allowed
    \* supervisor (startPipeline / runUpload)
    supPc, cycle, errorFound, supResult, ech, echClosed,
    \* scanner.Scan
    scanPc, scanQ, scanHit,
    \* processor.upload
    upPc, marker, attempts, candidates, pr,
    \* handler.Put / runParallel, per backend kind
    hPc, tPc, tSum, tEtag, results, errChan, hResult,
    \* processor.remove and processor.Process
    rmPc, rmResp, rmList, rmErr, sch, schClosed, fwPc, fwErr,
    \* history
    hist,
    \* components exercised on their own
    walk,       \* fsx.Walker over one directory
    pool,       \* one pipeline with several processors (workers)
    seqm,       \* sequentialFileMatcher.MatchFiles for one marker
    bm,         \* basicFileMatcher.MatchFiles for one marker
    boot,       \* newS3Handler: the bootstrap of the bucket
    twalk,      \* fsx.Walker.Start over a tree of directories
    cyc,        \* the scan cycles of one scanner and its walker
    bucket      \* s3Handler.ensureBucketExists and its memo

supVars  == <<supPc, cycle, errorFound, supResult, ech, echClosed>>
scanVars == <<scanPc, scanQ, scanHit>>
upVars   == <<upPc, marker, attempts, candidates, pr>>
hVars    == <<hPc, tPc, tSum, tEtag, results, errChan, hResult>>
rmVars   == <<rmPc, rmResp, rmList, rmErr, sch, schClosed, fwPc, fwErr>>
laterVars == <<twalk, cyc, bucket>>
unitVars == <<walk, pool, seqm, bm, boot, laterVars>>
worldVars == <<cfg, unitVars, fs, remote, cancelled, signalled, sibling, faults, writes>>
envVars  == <<worldVars, timer>>
vars     == <<envVars, supVars, scanVars, upVars, hVars, rmVars, hist>>

MarkerPaths == {CombineFilePath(b, MarkerExt) : b \in Bases}

NoRes == [Error |-> NoErr, MarkerPath |-> "", UploadResults |-> <<>>, Type |-> ""]
NoPr  == [Error |-> NoErr, Path |-> "", Result |-> <<>>]

\* ---------------------------------------------------------------- initial state
\* local trees the producer has written before the pipeline starts
TreeA  == [p \in Paths |-> IF p \in {"a.mf", "a.dat"} THEN 1 ELSE 0]
TreeNone == [p \in Paths |-> 0]
TreeAB == [p \in Paths |-> IF p \in {"a.mf", "a.dat", "b.mf"} THEN 1 ELSE 0]

\* destination contents left by earlier runs
RemoteEmpty == [k \in Kinds |-> [d \in DestKeys |-> 0]]
RemoteHasA  == [k \in Kinds |-> [d \in DestKeys |->
                   IF d = ComputeDestinationBucketPath("a.dat") THEN 1 ELSE 0]]

Flags == { [poll |-> FALSE, stopOnError |-> FALSE],
           [poll |-> TRUE,  stopOnError |-> FALSE],
           [poll |-> TRUE,  stopOnError |-> TRUE] }

Config(st, pt, ms, fl, sh) ==
    [storages |-> st, patterns |-> pt, minSize |-> ms,
     poll |-> fl.poll, stopOnError |-> fl.stopOnError, sharedLoopVar |-> sh,
     flushDelay |-> TRUE, sibling |-> FALSE,
     mode |-> [p \in Paths |-> "regular"]]

Scenario(c, tree, rem, nf, nw) ==
    [cfg |-> c, fs |-> tree, remote |-> rem, faults |-> nf, writes |-> nw]

\* two backends, one marker with its data file, failing backends
FanOutScenarios ==
    { Scenario(Config(<<"local", "s3">>, <<DataExt, MarkerExt>>, 0, fl, sh),
               TreeA, RemoteEmpty, MaxFaults, 0) : fl \in Flags, sh \in BOOLEAN }

\* one backend, two markers in the tree, failing backend
TwoMarkerScenarios ==
    { Scenario(Config(st, <<DataExt>>, 0, fl, FALSE), TreeAB, RemoteEmpty, MaxFaults, 0) :
         st \in {<<"local">>, <<"s3">>}, fl \in Flags }

\* one backend, a producer that rewrites or deletes files while the pipeline runs
ProducerScenarios ==
    { Scenario(Config(st, <<DataExt>>, 0, [poll |-> FALSE, stopOnError |-> FALSE], FALSE),
               TreeA, rem, MaxFaults, MaxWrites) :
         st \in {<<"local">>, <<"s3">>}, rem \in {RemoteEmpty, RemoteHasA} }
    \cup
    { Scenario(Config(<<"s3">>, <<DataExt>>, 2, [poll |-> FALSE, stopOnError |-> FALSE], FALSE),
               TreeA, RemoteEmpty, 0, MaxWrites) }
    \cup
    { Scenario(Config(st, <<DataExt, MarkerExt>>, 0, [poll |-> FALSE, stopOnError |-> FALSE], FALSE),
               TreeA, RemoteEmpty, 0, MaxWrites) :
         st \in {<<"local">>, <<"s3">>} }

\* the object store, a producer that rewrites and deletes the data file while
\* it is put
RewriteScenarios ==
    { Scenario(Config(<<"s3">>, <<DataExt>>, 0, [poll |-> FALSE, stopOnError |-> FALSE], FALSE),
               TreeA, RemoteEmpty, 0, MaxWrites + 2) }

\* a pipeline configured with a flush delay of zero and a producer that
\* rewrites its files
NoFlushScenarios ==
    { Scenario([Config(<<"s3">>, <<DataExt>>, 2, [poll |-> FALSE, stopOnError |-> FALSE], FALSE)
                   EXCEPT !.flushDelay = FALSE],
               TreeA, RemoteEmpty, 0, MaxWrites) }

\* a pipeline that runs beside another pipeline of the same command
SiblingScenarios ==
    { Scenario([Config(<<"s3">>, <<DataExt>>, 0, fl, FALSE) EXCEPT !.sibling = TRUE],
               TreeA, RemoteEmpty, MaxFaults, 0) : fl \in Flags }

\* trees that hold a directory or a non-regular file named like a marker,
\* and a scan root that does not exist
ScanScenarios ==
    { Scenario([Config(<<"s3">>, <<DataExt>>, 0, [poll |-> FALSE, stopOnError |-> FALSE], FALSE)
                   EXCEPT !.mode["b.mf"] = md],
               TreeAB, RemoteEmpty, 0, 0) : md \in {"dir", "other"} }
    \cup
    { Scenario(Config(<<"s3">>, <<DataExt>>, 0, [poll |-> FALSE, stopOnError |-> FALSE], FALSE),
               TreeNone, RemoteEmpty, 0, 0) }

\* every set of storages with every matcher configuration
SweepScenarios ==
    { Scenario(Config(st, pt, 0, [poll |-> FALSE, stopOnError |-> FALSE], sh),
               TreeA, RemoteEmpty, 0, 0) :
         st \in StorageChoices, pt \in PatternChoices, sh \in BOOLEAN }

Scenarios ==
    FanOutScenarios \cup TwoMarkerScenarios \cup ProducerScenarios \cup RewriteScenarios
    \cup NoFlushScenarios \cup SiblingScenarios \cup ScanScenarios \cup SweepScenarios

\* polling pipelines with one backend and a producer that rewrites files
PollingProducerScenarios ==
    { Scenario(Config(<<"s3">>, <<DataExt>>, 0, [poll |-> TRUE, stopOnError |-> FALSE], FALSE),
               TreeA, RemoteEmpty, MaxFaults, MaxWrites),
      Scenario(Config(<<"s3">>, <<DataExt>>, 2, [poll |-> TRUE, stopOnError |-> FALSE], FALSE),
               TreeA, RemoteEmpty, 0, MaxWrites) }

\* the object store and a producer that rewrites the data file twice
LiveRewriteScenarios ==
    { Scenario(Config(<<"s3">>, <<DataExt>>, 0, [poll |-> FALSE, stopOnError |-> FALSE], FALSE),
               TreeA, RemoteEmpty, 0, MaxWrites + 1) }

LiveScenarios ==
    FanOutScenarios \cup TwoMarkerScenarios \cup SweepScenarios \cup PollingProducerScenarios
    \cup LiveRewriteScenarios \cup SiblingScenarios

EmptyHist ==
    [ emits       |-> [m \in MarkerPaths |-> [k \in Kinds |-> "none"]],
      emitted     |-> [k \in Kinds |-> NoRes],
      prCount     |-> [m \in MarkerPaths |-> 0],
      errored     |-> {},
      removed     |-> {},
      putOk       |-> [k \in Kinds |-> {}],
      uploads     |-> 0,
      delivered   |-> <<>>,
      scanned     |-> {},
      lookupFailures |-> 0,
      init        |-> [fs |-> TreeA, remote |-> RemoteEmpty],
      dirty       |-> {},
      prevErrored |-> {},
      rmFailed    |-> {},
      prodRemoved |-> {},
      wait        |-> [held |-> 0, flushes |-> 0, stats |-> 0, sleeps |-> 0],
      waitCancelled |-> "",
      waitVanished  |-> "",
      tree        |-> TreeNone,
      sent        |-> <<>>,
      scanFailed  |-> FALSE,
      scanReports |-> 0,
      closes      |-> 0 ]

\* no walker is under examination
NoWalk == [pc |-> "idle", entries |-> {}, dir |-> <<>>, batchSize |-> 0,
           names |-> <<>>, visited |-> <<>>, hits |-> <<>>]

\* no object-store handler is being constructed
NoBoot == [pc |-> "idle", i |-> 0, err |-> 0, calls |-> 0, delays |-> 0,
           timer |-> "idle", cancelled |-> FALSE]

\* no basic matcher is under examination
NoBm == [pc |-> "idle", marker |-> "", patterns |-> <<>>, files |-> TreeNone,
         matches |-> <<>>, err |-> NoErr]

\* no sequential matcher is under examination
NoSeqm == [pc |-> "idle", files |-> {}, patterns |-> <<>>, idx |-> 0, i |-> 0,
           matches |-> <<>>]

\* no object-store bucket is being ensured
NoBucket == [pc |-> "idle", memo |-> FALSE, onServer |-> FALSE, ensures |-> 0,
             calls |-> <<>>, ret |-> "none"]

\* no tree is being walked
NoTwalk == [pc |-> "idle", kind |-> <<>>, stream |-> <<>>, batchSize |-> 0,
            answer |-> <<>>, stack |-> <<>>, ret |-> "none", opened |-> {},
            visits |-> <<>>, batches |-> <<>>, result |-> "none"]

\* no scanner is running cycles
NoCyc == [sup |-> "idle", cycle |-> 0, ctxDone |-> FALSE, scan |-> <<>>, opened |-> {},
          lost |-> {}]

\* the components of the later sections are idle
NoLater == twalk = NoTwalk /\ cyc = NoCyc /\ bucket = NoBucket

\* processors of one pipeline (MaxProcessors of the configuration)
Workers == 1..MaxWorkers

\* no processor pool is under examination
NoPool == [sup |-> "idle", cycle |-> 0, cancelled |-> FALSE, flags |-> [poll |-> FALSE, stopOnError |-> FALSE],
           files |-> {}, scan |-> <<>>, itemsClosed |-> FALSE,
           up |-> [w \in Workers |-> "idle"], upM |-> [w \in Workers |-> ""],
           upOk |-> [w \in Workers |-> TRUE],
           rm |-> [w \in Workers |-> "idle"], rmM |-> [w \in Workers |-> ""],
           rmOk |-> [w \in Workers |-> TRUE],
           sch |-> [w \in Workers |-> 0], fw |-> [w \in Workers |-> "idle"],
           ech |-> 0, echClosed |-> FALSE, errorFound |-> FALSE,
           listed |-> {}, received |-> {}]

\* the state after construction of a pipeline of one of the scenarios of S
PipelineOf(S) ==
    /\ \E s \in S :
          /\ cfg = s.cfg /\ fs = s.fs /\ remote = s.remote
          /\ faults = s.faults /\ writes = s.writes
    /\ cancelled = FALSE
    /\ signalled = FALSE
    /\ sibling = IF cfg.sibling THEN "running" ELSE "none"
    /\ timer = "idle"
    /\ supPc = "loop" /\ cycle = 0 /\ errorFound = FALSE /\ supResult = "running"
    /\ ech = <<>> /\ echClosed = FALSE
    /\ scanPc = "idle" /\ scanQ = <<>> /\ scanHit = NoHit
    /\ upPc = "idle" /\ marker = NoHit /\ attempts = 0 /\ candidates = <<>> /\ pr = NoPr
    /\ hPc = [k \in Kinds |-> "idle"]
    /\ tPc = [k \in Kinds |-> <<>>]
    /\ tSum = [k \in Kinds |-> <<>>]
    /\ tEtag = [k \in Kinds |-> <<>>]
    /\ results = [k \in Kinds |-> <<>>]
    /\ errChan = [k \in Kinds |-> <<>>]
    /\ hResult = [k \in Kinds |-> NoRes]
    /\ rmPc = "idle" /\ rmResp = NoPr /\ rmList = <<>> /\ rmErr = NoErr
    /\ sch = <<>> /\ schClosed = FALSE /\ fwPc = "idle" /\ fwErr = NoErr
    /\ hist = [EmptyHist EXCEPT !.init = [fs |-> fs, remote |-> remote]]

InitOf(S) ==
    /\ PipelineOf(S)
    /\ walk = NoWalk
    /\ pool = NoPool
    /\ seqm = NoSeqm
    /\ bm = NoBm
    /\ boot = NoBoot
    /\ NoLater

Init == InitOf(Scenarios)

\* ---------------------------------------------------------------- environment
\* SIGINT / SIGTERM: runUpload calls cancelFunc (upload.go:113-116)
Cancel ==
    /\ ~cancelled
    /\ cancelled' = TRUE
    /\ signalled' = TRUE
    /\ hist' = [hist EXCEPT !.waitCancelled =
                   IF upPc \in {"flush", "wait", "interval"} THEN marker.Path ELSE @]
    /\ UNCHANGED <<sibling, timer, cfg, unitVars, fs, remote, faults, writes, supVars, scanVars, upVars, hVars, rmVars>>

\* history: a single-file put of p to backend k has taken its digest and has
\* not transferred the file yet
InTransfer(k, p) ==
    \E i \in 1..Len(tPc[k]) : candidates[i] = p /\ tPc[k][i] = "put"

\* the producer rewrites a file it has written before
ProducerWrite ==
    /\ writes > 0
    /\ \E p \in Paths, c \in 1..MaxContent :
          /\ fs[p] # 0 /\ fs[p] # c
          /\ fs' = [fs EXCEPT ![p] = c]
          /\ hist' = [hist EXCEPT !.dirty = @ \cup
                {<<k, p>> : k \in {t \in Kinds : InTransfer(t, p)}}]
    /\ writes' = writes - 1
    /\ UNCHANGED <<cfg, unitVars, remote, cancelled, signalled, sibling, timer, faults, supVars, scanVars, upVars, hVars, rmVars>>

\* the producer deletes one of its files
ProducerRemove ==
    /\ writes > 0
    /\ \E p \in Paths :
          /\ fs[p] # 0
          /\ fs' = [fs EXCEPT ![p] = 0]
          /\ hist' = [hist EXCEPT !.prodRemoved = @ \cup {p},
                                  !.waitVanished =
                                     IF p = marker.Path
                                        /\ upPc \in {"flush", "wait", "stat", "interval"}
                                     THEN p ELSE @]
    /\ writes' = writes - 1
    /\ UNCHANGED <<cfg, unitVars, remote, cancelled, signalled, sibling, timer, faults, supVars, scanVars, upVars, hVars, rmVars>>

\* ---------------------------------------------------------------- supervisor
\* the walker's listing of the scan root, read in one batch (a batch size not
\* smaller than the number of entries): existing names in lexical order
Listing(f) == SortStrings({p \in Paths : f[p] # 0})

\* startPipeline, top of the loop (upload.go:184-221): return on ctx.Done,
\* otherwise make the error channel, start the scan and the processor
SupStartCycle ==
    /\ supPc = "loop"
    /\ IF cancelled
       THEN /\ supPc' = "returned" /\ supResult' = "nil"
            /\ UNCHANGED <<cycle, errorFound, ech, echClosed, scanVars, upVars, rmVars, hist>>
       ELSE /\ cycle < MaxCycles
            /\ cycle' = cycle + 1
            /\ supPc' = "collect"
            /\ errorFound' = FALSE
            /\ ech' = <<>> /\ echClosed' = FALSE
            /\ scanPc' = "walking" /\ scanQ' = Listing(fs) /\ scanHit' = NoHit
            /\ upPc' = "recv" /\ marker' = NoHit /\ attempts' = 0
            /\ candidates' = <<>> /\ pr' = NoPr
            /\ rmPc' = "recv" /\ rmResp' = NoPr /\ rmList' = <<>> /\ rmErr' = NoErr
            /\ sch' = <<>> /\ schClosed' = FALSE
            /\ fwPc' = "recv" /\ fwErr' = NoErr
            /\ supResult' = supResult
            /\ hist' = [EmptyHist EXCEPT
                  !.prodRemoved = hist.prodRemoved,
                  !.putOk = hist.putOk,
                  !.uploads = hist.uploads,
                  !.lookupFailures = hist.lookupFailures,
                  !.init = hist.init,
                  !.tree = fs,
                  !.prevErrored = {e[Len(e)] : e \in hist.errored}]
    /\ UNCHANGED <<envVars, hVars>>

\* mutant: the supervisor reads the errors of the cycle without noting them
SupCollect_Forget ==
    /\ supPc = "collect"
    /\ ech # <<>>
    /\ errorFound' = errorFound
    /\ hist' = [hist EXCEPT !.delivered = Append(@, Head(ech))]
    /\ ech' = Tail(ech)
    /\ UNCHANGED <<envVars, supPc, cycle, supResult, echClosed, scanVars, upVars, hVars, rmVars>>

\* for err := range ech (upload.go:223-231)
SupCollect ==
    /\ supPc = "collect"
    /\ ech # <<>>
    /\ errorFound' = TRUE
    /\ hist' = [hist EXCEPT !.delivered = Append(@, Head(ech))]
    /\ ech' = Tail(ech)
    /\ UNCHANGED <<envVars, supPc, cycle, supResult, echClosed, scanVars, upVars, hVars, rmVars>>

\* mutant: the supervisor returns after one pass although polling is enabled
SupEndCycle_NoPoll ==
    /\ supPc = "collect"
    /\ ech = <<>> /\ echClosed
    /\ IF errorFound /\ cfg.stopOnError
       THEN supPc' = "returned" /\ supResult' = "error" /\ cancelled' = TRUE
       ELSE /\ supPc' = "returned" /\ supResult' = "nil"
            /\ cancelled' = (cancelled \/ sibling # "running")
    /\ timer' = timer
    /\ UNCHANGED <<cfg, unitVars, fs, remote, signalled, sibling, faults, writes, cycle, errorFound, ech,
                   echClosed, scanVars, upVars, hVars, rmVars, hist>>

\* end of a scan cycle (upload.go:233-246); an error return makes runUpload
\* cancel the context (upload.go:92-97), and so does the return of the last
\* pipeline (upload.go:103-107)
SupEndCycle ==
    /\ supPc = "collect"
    /\ ech = <<>> /\ echClosed
    /\ IF errorFound /\ cfg.stopOnError
       THEN supPc' = "returned" /\ supResult' = "error" /\ cancelled' = TRUE
       ELSE IF ~cfg.poll
            THEN /\ supPc' = "returned" /\ supResult' = "nil"
                 /\ cancelled' = (cancelled \/ sibling # "running")
            ELSE supPc' = "sleep" /\ supResult' = supResult /\ cancelled' = cancelled
    /\ timer' = IF supPc' = "sleep" THEN "running" ELSE timer
    /\ UNCHANGED <<cfg, unitVars, fs, remote, signalled, sibling, faults, writes, cycle, errorFound, ech,
                   echClosed, scanVars, upVars, hVars, rmVars, hist>>

\* another pipeline of the run finds the context done at the top of its loop
\* and returns nil (upload.go:186-188); when it is the last one to return,
\* runUpload cancels the context (upload.go:103-107)
SiblingReturn ==
    /\ sibling = "running" /\ cancelled
    /\ sibling' = "returned"
    /\ UNCHANGED <<cfg, unitVars, fs, remote, cancelled, signalled, timer, faults, writes, supVars,
                   scanVars, upVars, hVars, rmVars, hist>>

\* mutant: the supervisor returns after the sleep between two cycles
SupWake_Return ==
    /\ supPc = "sleep" /\ timer = "fired"
    /\ supPc' = "returned" /\ supResult' = "nil"
    /\ cancelled' = (cancelled \/ sibling # "running")
    /\ timer' = "idle"
    /\ UNCHANGED <<cfg, unitVars, fs, remote, signalled, sibling, faults, writes, cycle, errorFound,
                   ech, echClosed, scanVars, upVars, hVars, rmVars, hist>>

\* time passes: the timer of the delay in progress fires
Tick ==
    /\ timer = "running"
    /\ timer' = "fired"
    /\ UNCHANGED <<worldVars, supVars, scanVars, upVars, hVars, rmVars, hist>>

\* time.Sleep(delay) returns when the scan interval has passed, whatever the
\* state of the context (upload.go:246)
SupWake ==
    /\ supPc = "sleep" /\ timer = "fired"
    /\ supPc' = "loop"
    /\ timer' = "idle"
    /\ UNCHANGED <<worldVars, cycle, errorFound, supResult, ech, echClosed,
                   scanVars, upVars, hVars, rmVars, hist>>

\* the joiner: pwg.Wait(); close(ech) (upload.go:209-221)
JoinerClose ==
    /\ supPc = "collect"
    /\ fwPc = "exit"
    /\ ~echClosed
    /\ echClosed' = TRUE
    /\ UNCHANGED <<envVars, supPc, cycle, errorFound, supResult, ech,
                   scanVars, upVars, hVars, rmVars, hist>>

\* ---------------------------------------------------------------- scanner
\* the error the scanner sends to the error channel of the cycle
ScanError == <<"error in scanner">>

\* mutant: the walk callback does not look at the file mode
ScanVisit_AnyMode ==
    /\ scanPc = "walking" /\ scanHit = NoHit /\ scanQ # <<>>
    /\ LET p == Head(scanQ) IN
          /\ scanQ' = Tail(scanQ)
          /\ scanHit' = IF fs[p] # 0 /\ ExtOf(p) = MarkerExt
                        THEN [Path |-> p, Size |-> SizeOf(fs[p])]
                        ELSE NoHit
    /\ UNCHANGED <<envVars, supVars, scanPc, upVars, hVars, rmVars, hist>>

\* the walker takes the next name and calls the walk callback of
\* scanner.Scan (part_001:84-131, handler.go:191-221): the error of a
\* vanished path is swallowed, any other error ends the traversal, a path
\* that is not a regular file with the marker extension is skipped
ScanVisit ==
    /\ scanPc = "walking" /\ scanHit = NoHit /\ scanQ # <<>>
    /\ LET p == Head(scanQ) IN
          \/ /\ scanQ' = Tail(scanQ)
             /\ scanHit' = IF fs[p] # 0 /\ cfg.mode[p] = "regular" /\ ExtOf(p) = MarkerExt
                           THEN [Path |-> p, Size |-> SizeOf(fs[p])]
                           ELSE NoHit
             /\ UNCHANGED <<faults, scanPc, hist>>
          \/ \* os.Lstat or the reading of a directory fails for another reason
             /\ faults > 0 /\ faults' = faults - 1
             /\ scanPc' = "failed"
             /\ hist' = [hist EXCEPT !.scanFailed = TRUE]
             /\ UNCHANGED <<scanQ, scanHit>>
    /\ UNCHANGED <<cfg, unitVars, fs, remote, cancelled, signalled, sibling, timer, writes, supVars,
                   upVars, hVars, rmVars>>

\* mutant: the scanner sends its hit without looking at the context
ScanSend_NoSelect ==
    /\ scanPc = "walking" /\ scanHit # NoHit
    /\ upPc = "recv"
    /\ IF cancelled
       THEN UNCHANGED <<upPc, marker>>
       ELSE upPc' = "exists" /\ marker' = scanHit
    /\ hist' = [hist EXCEPT !.scanned = @ \cup {scanHit.Path},
                            !.sent = Append(@, scanHit.Path)]
    /\ scanHit' = NoHit
    /\ UNCHANGED <<envVars, supVars, scanPc, scanQ, attempts, candidates, pr, hVars, rmVars>>

\* select { case items <- hit: ; case <-ctx.Done(): return nil } against the
\* receive of processor.upload (for marker := range markers; select ctx.Done
\* -> log and take the next one)
ScanSend ==
    /\ scanPc = "walking" /\ scanHit # NoHit
    /\ \/ /\ upPc = "recv"
          /\ IF cancelled
             THEN UNCHANGED <<upPc, marker>>
             ELSE upPc' = "exists" /\ marker' = scanHit
          /\ hist' = [hist EXCEPT !.scanned = IF cancelled THEN @ ELSE @ \cup {scanHit.Path},
                                  !.sent = Append(@, scanHit.Path)]
       \/ /\ cancelled
          /\ UNCHANGED <<upPc, marker, hist>>
    /\ scanHit' = NoHit
    /\ UNCHANGED <<envVars, supVars, scanPc, scanQ, attempts, candidates, pr, hVars, rmVars>>

\* mutant: the scanner ends without sending the error of the traversal
ScanReport_Drop ==
    /\ scanPc = "failed"
    /\ scanPc' = "closed"
    /\ hist' = [hist EXCEPT !.closes = @ + 1]
    /\ UNCHANGED <<envVars, supVars, scanQ, scanHit, upVars, hVars, rmVars>>

\* the traversal has returned an error: select { case ech <- err: ;
\* case <-ctx.Done(): } and then the deferred close(items)
\* (handler.go:240-252, 190).  When the joiner has closed ech the send case
\* can still be chosen: it panics ("send on closed channel") and, nothing
\* recovering it, the program ends there; scanPc records it, and what the
\* other goroutines could have done after it is of no account.
ScanReport ==
    /\ scanPc = "failed"
    /\ \/ /\ Len(ech) < 1 /\ ~echClosed
          /\ ech' = Append(ech, ScanError)
          /\ hist' = [hist EXCEPT !.closes = @ + 1, !.scanReports = @ + 1]
          /\ scanPc' = "closed"
       \/ /\ cancelled
          /\ ech' = ech
          /\ hist' = [hist EXCEPT !.closes = @ + 1]
          /\ scanPc' = "closed"
       \/ /\ echClosed
          /\ scanPc' = "crashed"
          /\ UNCHANGED <<ech, hist>>
    /\ UNCHANGED <<envVars, supPc, cycle, errorFound, supResult, echClosed, scanQ, scanHit,
                   upVars, hVars, rmVars>>

\* the walk has ended without an error: the deferred close(items)
\* (handler.go:190)
ScanClose ==
    /\ scanPc = "walking" /\ scanHit = NoHit /\ scanQ = <<>>
    /\ scanPc' = "closed"
    /\ hist' = [hist EXCEPT !.closes = @ + 1]
    /\ UNCHANGED <<envVars, supVars, scanQ, scanHit, upVars, hVars, rmVars>>

\* ---------------------------------------------------------------- processor.upload
\* core.IsFileExtension on the patterns of the model
IsFileExtension(e) == e = "" \/ e \in Exts

\* basicFileMatcher.MatchFiles through processor.prepareUploadCandidates:
\* the existing files <markerBase><ext>, in pattern order
RECURSIVE MatchFiles(_, _, _)
MatchFiles(m, pats, f) ==
    IF pats = <<>> THEN <<>>
    ELSE LET c == CombineFilePath(BaseOf(m), Head(pats))
         IN (IF c \in Paths /\ f[c] # 0 THEN <<c>> ELSE <<>>)
               \o MatchFiles(m, Tail(pats), f)

MatchFails(pats) == \E i \in 1..Len(pats) : ~IsFileExtension(pats[i])

\* the markers channel is closed and drained: the upload goroutine ends and
\* closes its output
UpClosed ==
    /\ upPc = "recv" /\ scanPc = "closed"
    /\ upPc' = "exit"
    /\ UNCHANGED <<envVars, supVars, scanVars, marker, attempts, candidates, pr, hVars, rmVars, hist>>

\* mutant: the upload stage does not wait for the marker to be ready
UpExists_SkipWait ==
    /\ upPc = "exists"
    /\ IF fs[marker.Path] = 0 THEN upPc' = "recv" ELSE upPc' = "match"
    /\ attempts' = 0
    /\ UNCHANGED <<envVars, supVars, scanVars, marker, candidates, pr, hVars, rmVars, hist>>

\* processor.go:192-194 and the entry of waitForMarkerFileToBeReady (94-106):
\* a held size that reaches minSize ends the wait at once, otherwise the
\* flush delay is applied when it is positive
UpExists ==
    /\ upPc = "exists"
    /\ IF fs[marker.Path] = 0 THEN upPc' = "recv"
       ELSE IF marker.Size >= cfg.minSize THEN upPc' = "match"
       ELSE IF cfg.flushDelay THEN upPc' = "flush"
       ELSE upPc' = "wait"
    /\ timer' = IF upPc' = "flush" THEN "running" ELSE timer
    /\ attempts' = 0
    /\ hist' = [hist EXCEPT !.wait = [held |-> marker.Size, flushes |-> 0,
                                      stats |-> 0, sleeps |-> 0]]
    /\ UNCHANGED <<worldVars, supVars, scanVars, marker, candidates, pr, hVars, rmVars>>

\* core.ApplyDelay(ctx, p.flushDelay) returns, when its timer has fired or
\* when the context is done
\* (processor.go:104-106, part_008:32-44)
UpFlush ==
    /\ upPc = "flush"
    /\ timer = "fired" \/ cancelled
    /\ timer' = "idle"
    /\ upPc' = "wait"
    /\ hist' = [hist EXCEPT !.wait.flushes = @ + 1]
    /\ UNCHANGED <<worldVars, supVars, scanVars, marker, attempts, candidates, pr, hVars, rmVars>>

\* mutant: the loop of the wait has no limit of attempts
UpWait_NoLimit ==
    /\ upPc = "wait"
    /\ IF cancelled THEN upPc' = "recv" ELSE upPc' = "stat"
    /\ UNCHANGED <<envVars, supVars, scanVars, marker, attempts, candidates, pr, hVars,
                   rmVars, hist>>

\* the top of an iteration of the loop of waitForMarkerFileToBeReady
\* (113-126): ctx.Done, then the limit of attempts
UpWait ==
    /\ upPc = "wait"
    /\ IF cancelled THEN upPc' = "recv"
       ELSE IF attempts >= DefaultMarkerFileCheckMaxAttempts THEN upPc' = "match"
       ELSE upPc' = "stat"
    /\ UNCHANGED <<envVars, supVars, scanVars, marker, attempts, candidates, pr, hVars,
                   rmVars, hist>>

\* os.Stat of the marker and the comparison of its size (128-151)
UpStat ==
    /\ upPc = "stat"
    /\ IF fs[marker.Path] = 0
       THEN upPc' = "recv" /\ UNCHANGED marker
       ELSE /\ upPc' = IF SizeOf(fs[marker.Path]) >= cfg.minSize THEN "match" ELSE "interval"
            /\ marker' = [marker EXCEPT !.Size = SizeOf(fs[marker.Path])]
    /\ timer' = IF upPc' = "interval" THEN "running" ELSE timer
    /\ hist' = [hist EXCEPT !.wait.stats = @ + 1]
    /\ UNCHANGED <<worldVars, supVars, scanVars, attempts, candidates, pr, hVars, rmVars>>

\* mutant: after the interval the loop stats the marker without looking at
\* the context
UpInterval_ThenStat ==
    /\ upPc = "interval"
    /\ timer = "fired" \/ cancelled
    /\ timer' = "idle"
    /\ upPc' = "stat"
    /\ attempts' = attempts + 1
    /\ hist' = [hist EXCEPT !.wait.sleeps = @ + 1]
    /\ UNCHANGED <<worldVars, supVars, scanVars, marker, candidates, pr, hVars, rmVars>>

\* core.ApplyDelay(ctx, checkInterval) returns, when its timer has fired or
\* when the context is done,
\* and the attempt is counted (processor.go:153-154)
UpInterval ==
    /\ upPc = "interval"
    /\ timer = "fired" \/ cancelled
    /\ timer' = "idle"
    /\ upPc' = "wait"
    /\ attempts' = attempts + 1
    /\ hist' = [hist EXCEPT !.wait.sleeps = @ + 1]
    /\ UNCHANGED <<worldVars, supVars, scanVars, marker, candidates, pr, hVars, rmVars>>

\* mutant: a marker whose candidates cannot be built is reported as a
\* MarkerResult with an error
UpMatch_ReportFailure ==
    /\ upPc = "match"
    /\ IF MatchFails(cfg.patterns)
       THEN /\ upPc' = "send"
            /\ pr' = [Error |-> <<"failed to match files", marker.Path>>,
                      Path |-> marker.Path, Result |-> <<>>]
            /\ UNCHANGED <<candidates, hPc, hist>>
       ELSE /\ candidates' = MatchFiles(marker.Path, cfg.patterns, fs)
            /\ pr' = [Error |-> NoErr, Path |-> marker.Path, Result |-> <<>>]
            /\ hPc' = [k \in Kinds |-> IF k \in SeqToSet(cfg.storages) THEN "start" ELSE "idle"]
            /\ upPc' = "aggregate"
            /\ hist' = [hist EXCEPT !.emitted = [k \in Kinds |-> NoRes], !.dirty = {}]
    /\ UNCHANGED <<envVars, supVars, scanVars, marker, attempts,
                   tPc, tSum, tEtag, results, errChan, hResult, rmVars>>

\* processor.go:207-246: match, then start one Put per storage and the joiner
UpMatch ==
    /\ upPc = "match"
    /\ IF MatchFails(cfg.patterns)
       THEN /\ upPc' = "recv"
            /\ UNCHANGED <<candidates, pr, hPc, hist>>
       ELSE /\ candidates' = MatchFiles(marker.Path, cfg.patterns, fs)
            /\ pr' = [Error |-> NoErr, Path |-> marker.Path, Result |-> <<>>]
            /\ hPc' = [k \in Kinds |-> IF k \in SeqToSet(cfg.storages) THEN "start" ELSE "idle"]
            /\ upPc' = "aggregate"
            /\ hist' = [hist EXCEPT !.emitted = [k \in Kinds |-> NoRes], !.dirty = {}]
    /\ UNCHANGED <<envVars, supVars, scanVars, marker, attempts,
                   tPc, tSum, tEtag, results, errChan, hResult, rmVars>>

\* ---------------------------------------------------------------- storage handler
UploadInfo(src, sum, start) ==
    [Src |-> src, Dest |-> ComputeDestinationBucketPath(src), Checksum |-> sum,
     startSum |-> start]   \* startSum: history, the digest computed when the put began

\* a nil *core.UploadInfo
NilInfo == [Src |-> "", Dest |-> "", Checksum |-> 0, startSum |-> 0]

\* mutant: the error of the pre-sync hook is ignored and the tasks are started
HandlerLaunch_IgnorePreSync(k) ==
    /\ hPc[k] = "start"
    /\ \/ k = "local" /\ faults > 0 /\ faults' = faults - 1
       \/ UNCHANGED faults
    /\ hPc' = [hPc EXCEPT ![k] = "run"]
    /\ tPc' = [tPc EXCEPT ![k] = [i \in 1..Len(candidates) |-> "start"]]
    /\ tSum' = [tSum EXCEPT ![k] = [i \in 1..Len(candidates) |-> 0]]
    /\ tEtag' = [tEtag EXCEPT ![k] = [i \in 1..Len(candidates) |-> 0]]
    /\ results' = [results EXCEPT ![k] = <<>>]
    /\ errChan' = [errChan EXCEPT ![k] =
          SelectSeq([i \in 1..Len(candidates) |->
                        IF fs[candidates[i]] = 0
                        THEN <<"candidate file is missing", k, candidates[i]>>
                        ELSE NoErr],
                    LAMBDA e : e # NoErr)]
    /\ UNCHANGED hResult
    /\ UNCHANGED <<cfg, unitVars, fs, remote, cancelled, signalled, sibling, timer, writes, supVars, scanVars,
                   upVars, rmVars, hist>>

\* mutant: runParallel returns at the first missing candidate without starting
\* a task
HandlerLaunch_StopAtMissing(k) ==
    /\ hPc[k] = "start"
    /\ \/ /\ k = "local" /\ faults > 0
          /\ faults' = faults - 1
          /\ hResult' = [hResult EXCEPT ![k] =
                [Error |-> <<"pre-sync validation failed", k>>, MarkerPath |-> marker.Path,
                 UploadResults |-> <<>>, Type |-> k]]
          /\ hPc' = [hPc EXCEPT ![k] = "emit"]
          /\ UNCHANGED <<tPc, tSum, tEtag, results, errChan>>
       \/ /\ \E i \in 1..Len(candidates) : fs[candidates[i]] = 0
          /\ LET i == CHOOSE n \in 1..Len(candidates) : fs[candidates[n]] = 0
             IN hResult' = [hResult EXCEPT ![k] =
                   [Error |-> <<"candidate file is missing", k, candidates[i]>>,
                    MarkerPath |-> marker.Path, UploadResults |-> <<>>, Type |-> k]]
          /\ hPc' = [hPc EXCEPT ![k] = "emit"]
          /\ UNCHANGED <<faults, tPc, tSum, tEtag, results, errChan>>
       \/ /\ \A i \in 1..Len(candidates) : fs[candidates[i]] # 0
          /\ hPc' = [hPc EXCEPT ![k] = "run"]
          /\ tPc' = [tPc EXCEPT ![k] = [i \in 1..Len(candidates) |-> "start"]]
          /\ tSum' = [tSum EXCEPT ![k] = [i \in 1..Len(candidates) |-> 0]]
          /\ tEtag' = [tEtag EXCEPT ![k] = [i \in 1..Len(candidates) |-> 0]]
          /\ results' = [results EXCEPT ![k] = <<>>]
          /\ errChan' = [errChan EXCEPT ![k] = <<>>]
          /\ UNCHANGED <<faults, hResult>>
    /\ UNCHANGED <<cfg, unitVars, fs, remote, cancelled, signalled, sibling, timer, writes, supVars, scanVars,
                   upVars, rmVars, hist>>

\* handler.runParallel up to wg.Wait (handler.go:93-125): pre-sync, the
\* existence check of every candidate and the start of one task per candidate.
\* Only the local-directory handler installs a preSync hook (local_dir.go:195).
HandlerLaunch(k) ==
    /\ hPc[k] = "start"
    /\ \/ /\ k = "local" /\ faults > 0
          /\ faults' = faults - 1
          /\ hResult' = [hResult EXCEPT ![k] =
                [Error |-> <<"pre-sync validation failed", k>>, MarkerPath |-> marker.Path,
                 UploadResults |-> <<>>, Type |-> k]]
          /\ hPc' = [hPc EXCEPT ![k] = "emit"]
          /\ UNCHANGED <<tPc, tSum, tEtag, results, errChan>>
       \/ /\ hPc' = [hPc EXCEPT ![k] = "run"]
          /\ tPc' = [tPc EXCEPT ![k] = [i \in 1..Len(candidates) |-> "start"]]
          /\ tSum' = [tSum EXCEPT ![k] = [i \in 1..Len(candidates) |-> 0]]
          /\ tEtag' = [tEtag EXCEPT ![k] = [i \in 1..Len(candidates) |-> 0]]
          /\ results' = [results EXCEPT ![k] = <<>>]
          /\ errChan' = [errChan EXCEPT ![k] =
                SelectSeq([i \in 1..Len(candidates) |->
                              IF fs[candidates[i]] = 0
                              THEN <<"candidate file is missing", k, candidates[i]>>
                              ELSE NoErr],
                          LAMBDA e : e # NoErr)]
          /\ UNCHANGED <<faults, hResult>>
    /\ UNCHANGED <<cfg, unitVars, fs, remote, cancelled, signalled, sibling, timer, writes, supVars, scanVars,
                   upVars, rmVars, hist>>

\* a task of runParallel ends with a result (handler.go:121-123)
TaskOk(k, i, info, transfers) ==
    /\ results' = [results EXCEPT ![k] = Append(@, info)]
    /\ tPc' = [tPc EXCEPT ![k][i] = "done"]
    /\ hist' = [hist EXCEPT !.putOk[k] = @ \cup {info.Src},
                            !.uploads = @ + transfers]
    /\ UNCHANGED errChan

\* a task of runParallel ends with an error (handler.go:116-119): the send
\* blocks for good when the channel already holds len(candidates) errors
TaskErr(k, i, e) ==
    /\ IF Len(errChan[k]) < Len(candidates)
       THEN /\ errChan' = [errChan EXCEPT ![k] = Append(@, e)]
            /\ tPc' = [tPc EXCEPT ![k][i] = "done"]
       ELSE /\ tPc' = [tPc EXCEPT ![k][i] = "blocked"]
            /\ UNCHANGED errChan
    /\ UNCHANGED <<results, hist>>

\* the error of a put whose source is gone when the put starts
\* (local_dir.go:68-70, part_007:109-117)
SourceMissing(k) ==
    IF k = "local" THEN "source file does not exist"
                   ELSE "failed to calculate local checksum"

\* the error of a put whose transfer failed (local_dir.go:151, part_007:151-160)
TransferFailed(k) ==
    IF k = "local" THEN "failed to copy file" ELSE "failed to upload file to S3"

\* the destination holds the content the source has now
DestMatches(k, src) ==
    LET key == ComputeDestinationBucketPath(src)
    IN remote[k][key] # 0 /\ FileMD5(remote[k][key]) = FileMD5(fs[src])

\* mutant: the put transfers the file although the destination matches
TaskStart_NoSkip(k, i) ==
    /\ hPc[k] = "run" /\ i \in 1..Len(candidates) /\ tPc[k][i] = "start"
    /\ LET src == candidates[i]
       IN IF fs[src] = 0
          THEN /\ TaskErr(k, i, <<"failed to upload file", k, src, SourceMissing(k)>>)
               /\ UNCHANGED tSum
          ELSE /\ tPc' = [tPc EXCEPT ![k][i] = "put"]
               /\ tSum' = [tSum EXCEPT ![k][i] = FileMD5(fs[src])]
               /\ UNCHANGED <<results, errChan, hist>>
    /\ UNCHANGED <<envVars, supVars, scanVars, upVars, hPc, tEtag, hResult, rmVars>>

\* first part of the single-file put: digest of the source and look-up of the
\* destination (syncWithDir, local_dir.go:65-116; syncWithBucket,
\* part_007:109-137).  StatObject fails when the context is done or when the
\* environment fails it, and the object store then uploads; the digest of an
\* existing destination file fails when the environment fails it, and the
\* local-directory put then returns the error.
TaskStart(k, i) ==
    /\ hPc[k] = "run" /\ i \in 1..Len(candidates) /\ tPc[k][i] = "start"
    /\ LET src == candidates[i]
           key == ComputeDestinationBucketPath(src)
           sum == FileMD5(fs[src])
       IN IF fs[src] = 0
          THEN /\ TaskErr(k, i, <<"failed to upload file", k, src, SourceMissing(k)>>)
               /\ UNCHANGED <<tSum, faults>>
          ELSE \/ \* the look-up succeeds and the destination matches
                  /\ ~(k = "s3" /\ cancelled)
                  /\ DestMatches(k, src)
                  /\ TaskOk(k, i, UploadInfo(src, FileMD5(remote[k][key]), sum), 0)
                  /\ UNCHANGED <<tSum, faults>>
               \/ \* the look-up succeeds and the destination differs or is absent
                  /\ ~(k = "s3" /\ cancelled)
                  /\ ~DestMatches(k, src)
                  /\ tPc' = [tPc EXCEPT ![k][i] = "put"]
                  /\ tSum' = [tSum EXCEPT ![k][i] = sum]
                  /\ UNCHANGED <<results, errChan, hist, faults>>
               \/ \* StatObject returns an error
                  /\ k = "s3"
                  /\ \/ cancelled /\ UNCHANGED faults
                     \/ ~cancelled /\ faults > 0 /\ faults' = faults - 1
                  /\ tPc' = [tPc EXCEPT ![k][i] = "put"]
                  /\ tSum' = [tSum EXCEPT ![k][i] = sum]
                  /\ hist' = [hist EXCEPT !.lookupFailures = @ + 1]
                  /\ UNCHANGED <<results, errChan>>
               \/ \* the digest of the existing destination file fails
                  /\ k = "local" /\ remote[k][key] # 0
                  /\ faults > 0 /\ faults' = faults - 1
                  /\ IF Len(errChan[k]) < Len(candidates)
                     THEN /\ errChan' = [errChan EXCEPT ![k] =
                                   Append(@, <<"failed to upload file", k, src, "failed to calculate remote checksum">>)]
                          /\ tPc' = [tPc EXCEPT ![k][i] = "done"]
                     ELSE /\ tPc' = [tPc EXCEPT ![k][i] = "blocked"]
                          /\ UNCHANGED errChan
                  /\ hist' = [hist EXCEPT !.lookupFailures = @ + 1]
                  /\ UNCHANGED <<results, tSum>>
    /\ UNCHANGED <<cfg, unitVars, fs, remote, cancelled, signalled, sibling, timer, writes, supVars, scanVars,
                   upVars, hPc, tEtag, hResult, rmVars>>

\* mutant: the transfer reports success without storing anything
TaskPut_NoStore(k, i) ==
    /\ hPc[k] = "run" /\ i \in 1..Len(candidates) /\ tPc[k][i] = "put"
    /\ LET src == candidates[i]
           key == ComputeDestinationBucketPath(src)
       IN \/ \* the environment fails the transfer
             /\ \/ ~(k = "s3" /\ cancelled) /\ faults > 0 /\ faults' = faults - 1
                \/ k = "s3" /\ cancelled /\ UNCHANGED faults
             /\ TaskErr(k, i, <<"failed to upload file", k, src, TransferFailed(k)>>)
             /\ UNCHANGED <<remote, tEtag>>
          \/ \* the source cannot be opened
             /\ ~(k = "s3" /\ cancelled)
             /\ fs[src] = 0
             /\ TaskErr(k, i, <<"failed to upload file", k, src, TransferFailed(k)>>)
             /\ UNCHANGED <<remote, tEtag, faults>>
          \/ /\ ~(k = "s3" /\ cancelled)
             /\ fs[src] # 0
             /\ remote' = remote
             /\ IF k = "local"
                THEN /\ TaskOk(k, i, UploadInfo(src, tSum[k][i], tSum[k][i]), 1)
                     /\ UNCHANGED tEtag
                ELSE IF FileMD5(fs[src]) = tSum[k][i]
                THEN /\ TaskOk(k, i, UploadInfo(src, FileMD5(fs[src]), tSum[k][i]), 1)
                     /\ UNCHANGED tEtag
                ELSE /\ tPc' = [tPc EXCEPT ![k][i] = "verify"]
                     /\ tEtag' = [tEtag EXCEPT ![k][i] = FileMD5(fs[src])]
                     /\ hist' = [hist EXCEPT !.uploads = @ + 1]
                     /\ UNCHANGED <<results, errChan>>
             /\ UNCHANGED faults
    /\ UNCHANGED <<cfg, unitVars, fs, cancelled, signalled, sibling, timer, writes, supVars, scanVars,
                   upVars, hPc, tSum, hResult, rmVars>>

\* the transfer: fsx.Copy after MkdirAll (local_dir.go:118-163), FPutObject
\* and the comparison of its entity tag (part_007:147-162)
TaskPut(k, i) ==
    /\ hPc[k] = "run" /\ i \in 1..Len(candidates) /\ tPc[k][i] = "put"
    /\ LET src == candidates[i]
           key == ComputeDestinationBucketPath(src)
       IN \/ \* the environment fails the transfer
             /\ \/ ~(k = "s3" /\ cancelled) /\ faults > 0 /\ faults' = faults - 1
                \/ k = "s3" /\ cancelled /\ UNCHANGED faults
             /\ TaskErr(k, i, <<"failed to upload file", k, src, TransferFailed(k)>>)
             /\ UNCHANGED <<remote, tEtag>>
          \/ \* the source cannot be opened
             /\ ~(k = "s3" /\ cancelled)
             /\ fs[src] = 0
             /\ TaskErr(k, i, <<"failed to upload file", k, src, TransferFailed(k)>>)
             /\ UNCHANGED <<remote, tEtag, faults>>
          \/ /\ ~(k = "s3" /\ cancelled)
             /\ fs[src] # 0
             /\ remote' = [remote EXCEPT ![k][key] = fs[src]]
             /\ IF k = "local"
                THEN /\ TaskOk(k, i, UploadInfo(src, tSum[k][i], tSum[k][i]), 1)
                     /\ UNCHANGED tEtag
                ELSE IF FileMD5(fs[src]) = tSum[k][i]
                THEN /\ TaskOk(k, i, UploadInfo(src, FileMD5(fs[src]), tSum[k][i]), 1)
                     /\ UNCHANGED tEtag
                ELSE /\ tPc' = [tPc EXCEPT ![k][i] = "verify"]
                     /\ tEtag' = [tEtag EXCEPT ![k][i] = FileMD5(fs[src])]
                     /\ hist' = [hist EXCEPT !.uploads = @ + 1]
                     /\ UNCHANGED <<results, errChan>>
             /\ UNCHANGED faults
    /\ UNCHANGED <<cfg, unitVars, fs, cancelled, signalled, sibling, timer, writes, supVars, scanVars,
                   upVars, hPc, tSum, hResult, rmVars>>

\* mutant: the second digest is not compared with the entity tag
TaskVerify_AcceptMismatch(k, i) ==
    /\ hPc[k] = "run" /\ i \in 1..Len(candidates) /\ tPc[k][i] = "verify"
    /\ LET src == candidates[i]
       IN IF fs[src] = 0
          THEN TaskErr(k, i, <<"failed to upload file", k, src,
                                "failed to calculate local checksum">>)
          ELSE TaskOk(k, i, UploadInfo(src, tEtag[k][i], tSum[k][i]), 0)
    /\ UNCHANGED <<envVars, supVars, scanVars, upVars, hPc, tSum, tEtag, hResult, rmVars>>

\* the entity tag differs from the digest taken before the upload: the
\* source is hashed again and the digest compared with the tag
\* (part_007:162-176)
TaskVerify(k, i) ==
    /\ hPc[k] = "run" /\ i \in 1..Len(candidates) /\ tPc[k][i] = "verify"
    /\ LET src == candidates[i]
       IN IF fs[src] = 0
          THEN TaskErr(k, i, <<"failed to upload file", k, src,
                                "failed to calculate local checksum">>)
          ELSE IF FileMD5(fs[src]) = tEtag[k][i]
          THEN TaskOk(k, i, UploadInfo(src, tEtag[k][i], tSum[k][i]), 0)
          ELSE /\ tPc' = [tPc EXCEPT ![k][i] = "stat"]
               /\ UNCHANGED <<results, errChan, hist>>
    /\ UNCHANGED <<envVars, supVars, scanVars, upVars, hPc, tSum, tEtag, hResult, rmVars>>

\* the second digest differs from the entity tag: os.Stat of the source for
\* the sizes of the message, then the error (part_007:176-198)
TaskStat(k, i) ==
    /\ hPc[k] = "run" /\ i \in 1..Len(candidates) /\ tPc[k][i] = "stat"
    /\ LET src == candidates[i]
       IN IF fs[src] = 0
          THEN TaskErr(k, i, <<"failed to upload file", k, src,
                                "failed to get local file info">>)
          ELSE TaskErr(k, i, <<"failed to upload file", k, src,
                                "checksum mismatch after upload">>)
    /\ UNCHANGED <<envVars, supVars, scanVars, upVars, hPc, tSum, tEtag, hResult, rmVars>>

\* mutant: Put reports success although tasks have pushed errors
HandlerJoin_IgnoreErrors(k) ==
    /\ hPc[k] = "run"
    /\ \A i \in 1..Len(candidates) : tPc[k][i] = "done"
    /\ hResult' = [hResult EXCEPT ![k] =
          [Error |-> NoErr, MarkerPath |-> marker.Path,
           UploadResults |-> results[k], Type |-> k]]
    /\ hPc' = [hPc EXCEPT ![k] = "emit"]
    /\ tPc' = [tPc EXCEPT ![k] = <<>>]
    /\ tSum' = [tSum EXCEPT ![k] = <<>>]
    /\ tEtag' = [tEtag EXCEPT ![k] = <<>>]
    /\ results' = [results EXCEPT ![k] = <<>>]
    /\ errChan' = [errChan EXCEPT ![k] = <<>>]
    /\ UNCHANGED <<envVars, supVars, scanVars, upVars, rmVars, hist>>

\* mutant: a result with an error keeps the outcomes of the puts that succeeded
HandlerJoin_KeepOutcomes(k) ==
    /\ hPc[k] = "run"
    /\ \A i \in 1..Len(candidates) : tPc[k][i] = "done"
    /\ hResult' = [hResult EXCEPT ![k] =
          [Error |-> IF Len(errChan[k]) > 0 THEN Head(errChan[k]) ELSE NoErr,
           MarkerPath |-> marker.Path, UploadResults |-> results[k], Type |-> k]]
    /\ hPc' = [hPc EXCEPT ![k] = "emit"]
    /\ tPc' = [tPc EXCEPT ![k] = <<>>]
    /\ tSum' = [tSum EXCEPT ![k] = <<>>]
    /\ tEtag' = [tEtag EXCEPT ![k] = <<>>]
    /\ results' = [results EXCEPT ![k] = <<>>]
    /\ errChan' = [errChan EXCEPT ![k] = <<>>]
    /\ UNCHANGED <<envVars, supVars, scanVars, upVars, rmVars, hist>>

\* wg.Wait returned: close(errChan) and build the result (handler.go:127-134,
\* 57-64)
HandlerJoin(k) ==
    /\ hPc[k] = "run"
    /\ \A i \in 1..Len(candidates) : tPc[k][i] = "done"
    /\ hResult' = [hResult EXCEPT ![k] =
          IF Len(errChan[k]) > 0
          THEN [Error |-> Head(errChan[k]), MarkerPath |-> marker.Path,
                UploadResults |-> <<>>, Type |-> k]
          ELSE [Error |-> NoErr, MarkerPath |-> marker.Path,
                UploadResults |-> results[k], Type |-> k]]
    /\ hPc' = [hPc EXCEPT ![k] = "emit"]
    /\ tPc' = [tPc EXCEPT ![k] = <<>>]
    /\ tSum' = [tSum EXCEPT ![k] = <<>>]
    /\ tEtag' = [tEtag EXCEPT ![k] = <<>>]
    /\ results' = [results EXCEPT ![k] = <<>>]
    /\ errChan' = [errChan EXCEPT ![k] = <<>>]
    /\ UNCHANGED <<envVars, supVars, scanVars, upVars, rmVars, hist>>

\* the accumulation loop of processor.upload (processor.go:249-257).  With
\* the loop variable shared by all iterations (Go before 1.22) every pointer
\* stored in the map designates the variable that holds the last result.
Aggregate(p, resp, shared) ==
    [p EXCEPT
       !.Error = IF resp.Error # NoErr /\ p.Error = NoErr
                 THEN resp.Error \o <<resp.MarkerPath>> ELSE p.Error,
       !.Result = [t \in (DOMAIN p.Result) \cup {resp.Type} |->
                      IF shared \/ t = resp.Type THEN resp ELSE p.Result[t]]]

\* select { case stored <- result: ; case <-ctx.Done(): } (handler.go:72-76)
\* against the receive of the accumulation loop
HandlerEmit(k) ==
    /\ hPc[k] = "emit"
    /\ \/ /\ upPc = "aggregate"
          /\ pr' = Aggregate(pr, hResult[k], cfg.sharedLoopVar)
          /\ hist' = [hist EXCEPT
                !.emitted[k] = hResult[k],
                !.emits[marker.Path][k] = IF hResult[k].Error = NoErr THEN "ok" ELSE "err"]
       \/ /\ cancelled
          /\ UNCHANGED <<pr, hist>>
    /\ hPc' = [hPc EXCEPT ![k] = "done"]
    /\ hResult' = [hResult EXCEPT ![k] = NoRes]
    /\ UNCHANGED <<envVars, supVars, scanVars, upPc, marker, attempts, candidates,
                   tPc, tSum, tEtag, results, errChan, rmVars>>

\* every Put has returned: the joiner closes the channel and the
\* accumulation loop ends (processor.go:243-246)
UpJoin ==
    /\ upPc = "aggregate"
    /\ \A k \in SeqToSet(cfg.storages) : hPc[k] = "done"
    /\ upPc' = "send"
    /\ hPc' = [k \in Kinds |-> "idle"]
    /\ UNCHANGED <<envVars, supVars, scanVars, marker, attempts, candidates, pr,
                   tPc, tSum, tEtag, results, errChan, hResult, rmVars, hist>>

\* ---------------------------------------------------------------- processor.remove
\* mutant: the outcomes of errored results are collected as well
prepareRemovalCandidates_KeepErrored(resp) ==
    SortStrings({resp.Path} \cup
        UNION { {resp.Result[t].UploadResults[j].Src :
                    j \in {n \in 1..Len(resp.Result[t].UploadResults) :
                              resp.Result[t].UploadResults[n] # NilInfo}} :
                t \in DOMAIN resp.Result })

\* processor.prepareRemovalCandidates (processor.go:386-409): a set of paths
\* holding the marker path and the Src of every non-nil outcome of every
\* result without error, returned as a sorted list
prepareRemovalCandidates(resp) ==
    SortStrings({resp.Path} \cup
        UNION { {resp.Result[t].UploadResults[j].Src :
                    j \in {n \in 1..Len(resp.Result[t].UploadResults) :
                              resp.Result[t].UploadResults[n] # NilInfo}} :
                t \in {u \in DOMAIN resp.Result : resp.Result[u].Error = NoErr} })

\* mutant: the remover does not look at the error of the result
RemoveReceive_IgnoreError(resp) ==
    IF cancelled
    THEN /\ rmPc' = "exit" /\ schClosed' = TRUE
         /\ UNCHANGED <<rmResp, rmList, rmErr>>
    ELSE /\ rmPc' = "rm" /\ rmResp' = resp
         /\ rmList' = prepareRemovalCandidates(resp)
         /\ UNCHANGED <<rmErr, schClosed>>

\* mutant: the remover does not look at the context when it takes a result
RemoveReceive_NoCtx(resp) ==
    IF resp.Error # NoErr
    THEN /\ rmPc' = "push" /\ rmErr' = resp.Error
         /\ rmResp' = resp /\ rmList' = <<>>
         /\ UNCHANGED schClosed
    ELSE /\ rmPc' = "rm" /\ rmResp' = resp
         /\ rmList' = prepareRemovalCandidates(resp)
         /\ UNCHANGED <<rmErr, schClosed>>

\* the remover takes a result off the channel (processor.go:295-331)
RemoveReceive(resp) ==
    IF cancelled
    THEN /\ rmPc' = "exit" /\ schClosed' = TRUE
         /\ UNCHANGED <<rmResp, rmList, rmErr>>
    ELSE IF resp.Error # NoErr
    THEN /\ rmPc' = "push" /\ rmErr' = resp.Error
         /\ rmResp' = resp /\ rmList' = <<>>
         /\ UNCHANGED schClosed
    ELSE /\ rmPc' = "rm" /\ rmResp' = resp
         /\ rmList' = prepareRemovalCandidates(resp)
         /\ UNCHANGED <<rmErr, schClosed>>

\* select { case processed <- pr: ; case <-ctx.Done(): return }
\* (processor.go:260-264) against the receive of processor.remove
UpSend ==
    /\ upPc = "send"
    /\ \/ /\ rmPc = "recv"
          /\ RemoveReceive(pr)
          /\ upPc' = "recv"
          /\ hist' = [hist EXCEPT
                !.prCount[pr.Path] = @ + 1,
                !.errored = IF pr.Error # NoErr THEN @ \cup {pr.Error} ELSE @]
       \/ /\ cancelled
          /\ upPc' = "exit"
          /\ UNCHANGED <<rmPc, rmResp, rmList, rmErr, schClosed, hist>>
    /\ UNCHANGED <<envVars, supVars, scanVars, marker, attempts, candidates, pr,
                   hVars, sch, fwPc, fwErr>>

\* the results channel is closed and drained: the remover ends, closing sch
RmClosed ==
    /\ rmPc = "recv" /\ upPc = "exit"
    /\ rmPc' = "exit" /\ schClosed' = TRUE
    /\ UNCHANGED <<envVars, supVars, scanVars, upVars, hVars,
                   rmResp, rmList, rmErr, sch, fwPc, fwErr, hist>>

\* mutant: a failed delete ends the removal of the set
RmPush_StopSet ==
    /\ rmPc = "push"
    /\ \/ /\ Len(sch) < 1
          /\ sch' = Append(sch, rmErr)
          /\ rmPc' = "recv" /\ rmList' = <<>>
          /\ UNCHANGED schClosed
       \/ /\ cancelled
          /\ rmPc' = "exit" /\ schClosed' = TRUE
          /\ UNCHANGED <<sch, rmList>>
    /\ rmErr' = NoErr
    /\ UNCHANGED <<envVars, supVars, scanVars, upVars, hVars, rmResp, fwPc, fwErr, hist>>

\* select { case sch <- err: ; case <-ctx.Done(): return } (processor.go:315-319,
\* 341-345); sch has capacity 1
RmPush ==
    /\ rmPc = "push"
    /\ \/ /\ Len(sch) < 1
          /\ sch' = Append(sch, rmErr)
          /\ rmPc' = IF rmList = <<>> THEN "recv" ELSE "rm"
          /\ UNCHANGED schClosed
       \/ /\ cancelled
          /\ rmPc' = "exit" /\ schClosed' = TRUE
          /\ UNCHANGED sch
    /\ rmErr' = NoErr
    /\ UNCHANGED <<envVars, supVars, scanVars, upVars, hVars, rmResp, rmList, fwPc, fwErr, hist>>

\* one path of the removal list (processor.go:332-353)
RmRemove ==
    /\ rmPc = "rm"
    /\ IF rmList = <<>>
       THEN /\ rmPc' = "recv"
            /\ UNCHANGED <<fs, faults, rmList, rmErr, hist>>
       ELSE LET p == Head(rmList) IN
            /\ rmList' = Tail(rmList)
            /\ IF fs[p] = 0
               THEN /\ rmPc' = rmPc
                    /\ UNCHANGED <<fs, faults, rmErr, hist>>
               ELSE \/ /\ fs' = [fs EXCEPT ![p] = 0]
                       /\ hist' = [hist EXCEPT !.removed = @ \cup {p}]
                       /\ rmPc' = rmPc
                       /\ UNCHANGED <<faults, rmErr>>
                    \/ /\ faults > 0
                       /\ faults' = faults - 1
                       /\ rmErr' = <<"remove failed", p>>
                       /\ rmPc' = "push"
                       /\ hist' = [hist EXCEPT !.rmFailed = @ \cup {p}]
                       /\ UNCHANGED fs
    /\ UNCHANGED <<cfg, unitVars, remote, cancelled, signalled, sibling, timer, writes, supVars, scanVars, upVars,
                   hVars, rmResp, sch, schClosed, fwPc, fwErr>>

\* ---------------------------------------------------------------- processor.Process
\* for err := range sch (processor.go:69)
FwRecv ==
    /\ fwPc = "recv"
    /\ IF sch # <<>>
       THEN /\ fwErr' = Head(sch) /\ sch' = Tail(sch) /\ fwPc' = "send"
       ELSE /\ schClosed
            /\ fwPc' = "exit"
            /\ UNCHANGED <<fwErr, sch>>
    /\ UNCHANGED <<envVars, supVars, scanVars, upVars, hVars,
                   rmPc, rmResp, rmList, rmErr, schClosed, hist>>

\* mutant: the forwarder drops the error it has read
FwSend_Drop ==
    /\ fwPc = "send"
    /\ fwPc' = IF cancelled THEN "exit" ELSE "recv"
    /\ fwErr' = NoErr
    /\ UNCHANGED <<envVars, supVars, scanVars, upVars, hVars, rmPc, rmResp, rmList,
                   rmErr, sch, schClosed, hist>>

\* select { case ech <- err: ; case <-ctx.Done(): return } (processor.go:71-75);
\* ech has capacity 1 (upload.go:185)
FwSend ==
    /\ fwPc = "send"
    /\ \/ /\ Len(ech) < 1 /\ ~echClosed
          /\ ech' = Append(ech, fwErr)
          /\ fwPc' = "recv"
       \/ /\ cancelled
          /\ fwPc' = "exit"
          /\ UNCHANGED ech
    /\ fwErr' = NoErr
    /\ UNCHANGED <<envVars, supPc, cycle, errorFound, supResult, echClosed, scanVars,
                   upVars, hVars, rmPc, rmResp, rmList, rmErr, sch, schClosed, hist>>

\* ---------------------------------------------------------------- specification
Next ==
    \/ Cancel
    \/ ProducerWrite
    \/ ProducerRemove
    \/ SupStartCycle
    \/ SupCollect
    \/ SupEndCycle
    \/ SupWake
    \/ Tick
    \/ SiblingReturn
    \/ JoinerClose
    \/ ScanVisit
    \/ ScanSend
    \/ ScanReport
    \/ ScanClose
    \/ UpClosed
    \/ UpExists
    \/ UpFlush
    \/ UpWait
    \/ UpStat
    \/ UpInterval
    \/ UpMatch
    \/ \E k \in Kinds : HandlerLaunch(k)
    \/ \E k \in Kinds, i \in 1..2 : TaskStart(k, i)
    \/ \E k \in Kinds, i \in 1..2 : TaskPut(k, i)
    \/ \E k \in Kinds, i \in 1..2 : TaskVerify(k, i)
    \/ \E k \in Kinds, i \in 1..2 : TaskStat(k, i)
    \/ \E k \in Kinds : HandlerJoin(k)
    \/ \E k \in Kinds : HandlerEmit(k)
    \/ UpJoin
    \/ UpSend
    \/ RmClosed
    \/ RmPush
    \/ RmRemove
    \/ FwRecv
    \/ FwSend

Spec == Init /\ [][Next]_vars

\* ---------------------------------------------------------------- runs without cancellation
\* the goroutines of a pipeline
Supervisor ==
    SupStartCycle \/ SupCollect \/ SupEndCycle \/ SupWake \/ JoinerClose \/ SiblingReturn

Scanner == ScanVisit \/ ScanSend \/ ScanReport \/ ScanClose

Uploader ==
    UpClosed \/ UpExists \/ UpFlush \/ UpWait \/ UpStat \/ UpInterval \/ UpMatch \/ UpJoin \/ UpSend

Handlers ==
    \E k \in Kinds :
       \/ HandlerLaunch(k) \/ HandlerJoin(k) \/ HandlerEmit(k)
       \/ \E i \in 1..2 : TaskStart(k, i) \/ TaskPut(k, i) \/ TaskVerify(k, i)
                              \/ TaskStat(k, i)

Remover == RmClosed \/ RmPush \/ RmRemove

Forwarder == FwRecv \/ FwSend

\* no signal arrives and the producer deletes nothing
NextLive ==
    \/ ProducerWrite
    \/ SupStartCycle
    \/ SupCollect
    \/ SupEndCycle
    \/ SupWake
    \/ Tick
    \/ SiblingReturn
    \/ JoinerClose
    \/ ScanVisit
    \/ ScanSend
    \/ ScanReport
    \/ ScanClose
    \/ UpClosed
    \/ UpExists
    \/ UpFlush
    \/ UpWait
    \/ UpStat
    \/ UpInterval
    \/ UpMatch
    \/ \E k \in Kinds : HandlerLaunch(k)
    \/ \E k \in Kinds, i \in 1..2 : TaskStart(k, i)
    \/ \E k \in Kinds, i \in 1..2 : TaskPut(k, i)
    \/ \E k \in Kinds, i \in 1..2 : TaskVerify(k, i)
    \/ \E k \in Kinds, i \in 1..2 : TaskStat(k, i)
    \/ \E k \in Kinds : HandlerJoin(k)
    \/ \E k \in Kinds : HandlerEmit(k)
    \/ UpJoin
    \/ UpSend
    \/ RmClosed
    \/ RmPush
    \/ RmRemove
    \/ FwRecv
    \/ FwSend

\* the Go scheduler lets every goroutine that can take a step take one
Fairness ==
    /\ WF_vars(Supervisor)
    /\ WF_vars(Scanner)
    /\ WF_vars(Uploader)
    /\ WF_vars(Handlers)
    /\ WF_vars(Remover)
    /\ WF_vars(Forwarder)
    /\ WF_vars(Tick)

InitLive == InitOf(LiveScenarios)

SpecLive == InitLive /\ [][NextLive]_vars /\ Fairness

\* ---------------------------------------------------------------- properties
MarkerOf(p) == CombineFilePath(BaseOf(p), MarkerExt)

Storages == SeqToSet(cfg.storages)

\* C1: within a scan cycle the remover deletes a marker file or one of its
\* candidate files only if every configured backend has emitted a
\* BackendResult without error for that marker, and a marker for which some
\* BackendResult carries an error is not deleted by the remover: it still
\* exists unless the producer itself deleted it.
C1_RemoveOnlyIfAllBackendsOk ==
    /\ \A p \in hist.removed :
          \A k \in Storages : hist.emits[MarkerOf(p)][k] = "ok"
    /\ \A m \in MarkerPaths :
          (\E k \in Kinds : hist.emits[m][k] = "err")
             => /\ m \notin hist.removed
                /\ fs[m] # 0 \/ m \in hist.prodRemoved

\* one marker of the cycle was removed after its backend succeeded while
\* another marker, whose backend reported an error, is still on disk
C1_Witness ==
    \E m1, m2 \in MarkerPaths :
       /\ m1 \in hist.removed
       /\ \E k \in Storages : hist.emits[m2][k] = "err"
       /\ fs[m2] # 0

\* a path whose extension is one of the patterns of the matcher
Selected(p) == ExtOf(p) \in SeqToSet(cfg.patterns)

\* C2 (as stated): every local file the pipeline has deleted, marker file or
\* data file, was put successfully to every configured backend before.
C2_DeletedWasPut ==
    \A p \in hist.removed : \A k \in Storages : p \in hist.putOk[k]

\* C2 (amended): every deleted data file, and every deleted marker file whose
\* extension the matcher selects, was put successfully to every configured
\* backend before; a marker file the matcher does not select is deleted
\* without having been put.
C2_DeletedCandidateWasPut ==
    \A p \in hist.removed :
       (p \notin MarkerPaths \/ Selected(p)) => \A k \in Storages : p \in hist.putOk[k]

\* a data file was deleted after both backends had stored it
C2_Witness ==
    \E p \in hist.removed :
       /\ p \notin MarkerPaths
       /\ Storages = {"local", "s3"}
       /\ \A k \in Storages : p \in hist.putOk[k]

\* ---------------------------------------------------------------- removal list
\* prepareRemovalCandidates applied to arbitrary MarkerResults: any subset of
\* the backend kinds, each result with or without an error and with up to
\* MaxOutcomes outcomes (nil entries included), errored results carrying
\* outcomes as well
OutcomeSeqs ==
    UNION { [1..n -> {UploadInfo(p, FileMD5(1), FileMD5(1)) : p \in Paths} \cup {NilInfo}] :
              n \in 0..MaxOutcomes }

BackendResults(k, m) ==
    { [Error |-> e, MarkerPath |-> m, UploadResults |-> o, Type |-> k] :
         e \in {NoErr, <<"failed to upload file", k>>}, o \in OutcomeSeqs }

\* the MarkerResult of marker m whose map holds, for the kinds in D, the
\* result l of the local directory and the result s of the object store
MarkerResult(m, D, l, s) ==
    [Error |-> NoErr, Path |-> m,
     Result |-> [k \in D |-> IF k = "local" THEN l ELSE s]]

InitRemoval ==
    /\ cfg = Config(<<"local", "s3">>, <<DataExt>>, 0, [poll |-> FALSE, stopOnError |-> FALSE], FALSE)
    /\ fs = TreeA /\ remote = RemoteEmpty
    /\ faults = 0 /\ writes = 0
    /\ cancelled = FALSE /\ signalled = FALSE /\ sibling = "none" /\ timer = "idle"
    /\ supPc = "collect" /\ cycle = 1 /\ errorFound = FALSE /\ supResult = "running"
    /\ ech = <<>> /\ echClosed = FALSE
    /\ scanPc = "closed" /\ scanQ = <<>> /\ scanHit = NoHit
    /\ upPc = "recv" /\ marker = NoHit /\ attempts = 0 /\ candidates = <<>> /\ pr = NoPr
    /\ hPc = [k \in Kinds |-> "idle"]
    /\ tPc = [k \in Kinds |-> <<>>]
    /\ tSum = [k \in Kinds |-> <<>>]
    /\ tEtag = [k \in Kinds |-> <<>>]
    /\ results = [k \in Kinds |-> <<>>]
    /\ errChan = [k \in Kinds |-> <<>>]
    /\ hResult = [k \in Kinds |-> NoRes]
    /\ rmPc = "recv" /\ rmList = <<>> /\ rmErr = NoErr
    /\ \E m \in MarkerPaths, D \in SUBSET Kinds :
          \E l \in BackendResults("local", m), s \in BackendResults("s3", m) :
             rmResp = MarkerResult(m, D, l, s)
    /\ sch = <<>> /\ schClosed = FALSE /\ fwPc = "recv" /\ fwErr = NoErr
    /\ hist = EmptyHist
    /\ walk = NoWalk
    /\ pool = NoPool
    /\ seqm = NoSeqm
    /\ bm = NoBm
    /\ boot = NoBoot
    /\ NoLater

\* removalCandidates := p.prepareRemovalCandidates(resp) (processor.go:323)
PrepareRemoval ==
    /\ rmPc = "recv"
    /\ rmList' = prepareRemovalCandidates(rmResp)
    /\ rmPc' = "rm"
    /\ UNCHANGED <<envVars, supVars, scanVars, upVars, hVars, rmResp, rmErr,
                   sch, schClosed, fwPc, fwErr, hist>>

NextRemoval == PrepareRemoval

SpecRemoval == InitRemoval /\ [][NextRemoval]_vars

\* the Src of the non-nil outcomes of the result of backend t
SourcesOf(resp, t) ==
    { o.Src : o \in SeqToSet(resp.Result[t].UploadResults) \ {NilInfo} }

\* C3: for every MarkerResult the list returned by prepareRemovalCandidates
\* holds exactly the marker path and the source paths of the outcomes of the
\* results without error, in strictly ascending lexical order (hence without
\* duplicates), and no path that only an errored result names.
C3_RemovalCandidates ==
    rmPc = "rm" =>
       /\ SeqToSet(rmList) =
             {rmResp.Path} \cup
             {p \in Paths : \E t \in DOMAIN rmResp.Result :
                               /\ rmResp.Result[t].Error = NoErr
                               /\ p \in SourcesOf(rmResp, t)}
       /\ \A i, j \in 1..Len(rmList) : i < j => StrLess(rmList[i], rmList[j])
       /\ \A i \in 1..Len(rmList) :
             \/ rmList[i] = rmResp.Path
             \/ \E t \in DOMAIN rmResp.Result :
                   rmResp.Result[t].Error = NoErr /\ rmList[i] \in SourcesOf(rmResp, t)

\* the list was computed for a result in which an errored backend names a
\* path no errorless backend names, and an errorless backend repeats a path
C3_Witness ==
    /\ rmPc = "rm"
    /\ DOMAIN rmResp.Result = Kinds
    /\ rmResp.Result["local"].Error # NoErr
    /\ rmResp.Result["s3"].Error = NoErr
    /\ "b.dat" \in SourcesOf(rmResp, "local") \ SourcesOf(rmResp, "s3")
    /\ Len(rmResp.Result["s3"].UploadResults) = 2
    /\ SourcesOf(rmResp, "s3") = {"a.dat"}
    /\ rmList = <<"a.dat", rmResp.Path>>

\* C4: the error of every MarkerResult the upload stage emits is nil if and
\* only if every BackendResult stored in its result map has a nil error.
C4_ErrorIffAllResultsNil ==
    upPc = "send" =>
       ((pr.Error = NoErr) <=> \A t \in DOMAIN pr.Result : pr.Result[t].Error = NoErr)

\* C5: absent cancellation the upload stage emits at most one MarkerResult
\* per marker and scan cycle, emits it only after every configured backend's
\* Put has returned, and the result map of the MarkerResult holds, for each
\* configured backend kind, the BackendResult that backend emitted.
C5_OneResultHoldingEveryEmit ==
    /\ \A m \in MarkerPaths : hist.prCount[m] <= 1
    /\ (upPc = "send" /\ ~cancelled) =>
          /\ \A k \in Kinds : hPc[k] = "idle"
          /\ DOMAIN pr.Result = Storages
          /\ \A k \in Storages : pr.Result[k] = hist.emitted[k]

\* the readiness wait of the current marker has ended with a positive answer:
\* the size reached the minimum or the attempts are used up
WaitFinished ==
    marker.Size >= cfg.minSize \/ attempts >= DefaultMarkerFileCheckMaxAttempts

\* C6: for each marker the stages happen in the order WAIT-READY, MATCH,
\* REPLICATE, AGGREGATE, REMOVE: a backend Put for the marker runs only
\* after the readiness wait and the matching of that marker have finished,
\* and a local file of the marker is deleted only after every Put for the
\* marker has returned and the MarkerResult has been emitted.
C6_StageOrder ==
    /\ \A k \in Kinds :
          hPc[k] # "idle" =>
             /\ k \in Storages
             /\ upPc = "aggregate"
             /\ pr.Path = marker.Path
             /\ WaitFinished
             /\ ~MatchFails(cfg.patterns)
    /\ \A k \in Kinds : tPc[k] # <<>> => hPc[k] = "run"
    /\ rmPc \in {"rm", "push"} =>
          /\ hist.prCount[rmResp.Path] >= 1
          /\ marker.Path = rmResp.Path =>
                upPc \in {"recv", "exit"} /\ \A k \in Kinds : hPc[k] = "idle"
    /\ \A p \in hist.removed :
          /\ hist.prCount[MarkerOf(p)] >= 1
          /\ \A k \in Storages : hist.emits[MarkerOf(p)][k] # "none"
          /\ marker.Path = MarkerOf(p) => \A k \in Kinds : hPc[k] = "idle"

\* a marker that had to wait for its size was replicated and its files were
\* deleted afterwards
C6_Witness ==
    /\ cfg.minSize > 0
    /\ attempts > 0
    /\ marker.Path \in hist.removed
    /\ \E p \in hist.removed : p \notin MarkerPaths /\ MarkerOf(p) = marker.Path
    /\ \A k \in Storages : hist.emits[marker.Path][k] = "ok"
    /\ Storages # {}

\* number of times e was read off the error channel by the supervisor
CountIn(seq, e) == Cardinality({i \in 1..Len(seq) : seq[i] = e})

\* C7: absent cancellation the error of every MarkerResult that carries one
\* is delivered to the supervisor's error channel: never more than once, at
\* most one errored MarkerResult per marker, eventually once, and exactly
\* once when the scan cycle ends.
C7_ErrorDeliveredOnce ==
    /\ [](\A e \in hist.errored : CountIn(hist.delivered, e) <= 1)
    /\ [](\A m \in MarkerPaths :
             Cardinality({e \in hist.errored : e[Len(e)] = m}) <= 1)
    /\ []((echClosed /\ ech = <<>>) =>
             \A e \in hist.errored : CountIn(hist.delivered, e) = 1)
    /\ (\E e \in hist.errored : CountIn(hist.delivered, e) = 0)
          ~> (\A e \in hist.errored : CountIn(hist.delivered, e) = 1)

\* the supervisor has read the error of an errored MarkerResult
C7_Witness ==
    /\ ~cancelled
    /\ \E e \in hist.errored : CountIn(hist.delivered, e) = 1

\* history: the MarkerResult of m carried an error in this scan cycle
Errored(m) == \E e \in hist.errored : e[Len(e)] = m

\* history: every configured backend emitted an errorless result for m in
\* this scan cycle
AllOk(m) == Storages # {} /\ \A k \in Storages : hist.emits[m][k] = "ok"

\* the marker file and the data files the matcher selects for it
LocalFilesOf(m) == {m} \cup {p \in Paths \ MarkerPaths : MarkerOf(p) = m /\ Selected(p)}

PollMode == cfg.poll /\ ~cfg.stopOnError

\* the next scan cycle emits a marker whose replication failed in this one,
\* unless the traversal of that cycle fails before it reaches the marker
RetriedNextCycle ==
    \A m \in MarkerPaths :
       (PollMode /\ Errored(m) /\ cycle < MaxCycles)
          ~> (m \in hist.prevErrored /\ (m \in hist.scanned \/ hist.scanFailed))

PutOfMatchingStarts(k, i) ==
    /\ TaskStart(k, i)
    /\ fs[candidates[i]] # 0
    /\ DestMatches(k, candidates[i])

\* the put ends at once with an outcome that carries the digest of the
\* existing destination, and nothing is transferred
SkipsTransfer(k, i) ==
    /\ tPc'[k][i] = "done"
    /\ results'[k] = Append(results[k],
          UploadInfo(candidates[i],
                     FileMD5(remote[k][ComputeDestinationBucketPath(candidates[i])]),
                     FileMD5(fs[candidates[i]])))
    /\ errChan' = errChan
    /\ remote' = remote
    /\ hist'.uploads = hist.uploads

\* history: when the pipeline started every file the matcher selects was
\* stored with the same content on every configured backend
InSyncAtStart ==
    /\ Storages # {}
    /\ \E p \in Paths : hist.init.fs[p] # 0 /\ Selected(p)
    /\ \A k \in Storages, p \in Paths :
          (hist.init.fs[p] # 0 /\ Selected(p))
             => hist.init.remote[k][ComputeDestinationBucketPath(p)] = hist.init.fs[p]

\* C9 (as stated): a single-file put whose destination exists with a digest
\* equal to the local digest transfers nothing and reports success with the
\* metadata of the existing object, and a run over input that is already
\* replicated and does not change performs no upload and leaves the
\* destination objects as they are.
C9_SkipWhenDestinationMatches ==
    /\ [][\A k \in Kinds, i \in 1..2 : PutOfMatchingStarts(k, i) => SkipsTransfer(k, i)]_vars
    /\ []((InSyncAtStart /\ writes = MaxWrites)
             => (hist.uploads = 0 /\ remote = hist.init.remote))

\* C9 (amended): the same, provided the look-up of the destination succeeds.
C9_SkipWhenLookupShowsMatch ==
    /\ [][\A k \in Kinds, i \in 1..2 :
             (PutOfMatchingStarts(k, i) /\ hist'.lookupFailures = hist.lookupFailures)
                => SkipsTransfer(k, i)]_vars
    /\ []((InSyncAtStart /\ writes = MaxWrites /\ hist.lookupFailures = 0)
             => (hist.uploads = 0 /\ remote = hist.init.remote))

\* a run over replicated input has ended a put with an outcome without any
\* transfer, and the source was deleted afterwards
C9_Witness ==
    /\ InSyncAtStart /\ writes = MaxWrites /\ hist.lookupFailures = 0
    /\ hist.uploads = 0
    /\ \E k \in Storages : "a.dat" \in hist.putOk[k]
    /\ "a.dat" \in hist.removed

\* the outcomes of the errorless result backend k has emitted for the marker
\* in hand
OutcomesOf(k) ==
    IF hist.emitted[k].Error = NoErr THEN SeqToSet(hist.emitted[k].UploadResults) ELSE {}

Rehashing(k, i) == i \in DOMAIN tPc[k] /\ tPc[k][i] = "verify" /\ fs[candidates[i]] # 0

\* the outcome a put returns when the second digest equals the entity tag
TagOutcome(k, i) == UploadInfo(candidates[i], tEtag[k][i], tSum[k][i])

\* the task ended with the error e and without an outcome
FailsWith(k, i, causes) ==
    /\ results'[k] = results[k]
    /\ tPc'[k][i] \in {"done", "blocked"}
    /\ tPc'[k][i] = "done" =>
          /\ Len(errChan'[k]) = Len(errChan[k]) + 1
          /\ errChan'[k][Len(errChan'[k])][4] \in causes

\* C11 as stated: when the entity tag differs from the digest taken before
\* the upload the source is hashed again; a second digest equal to the tag
\* ends the put with the tag as checksum, any other second digest ends it
\* with the checksum-mismatch error and without an outcome
C11_MismatchEndsWithChecksumError ==
    [][\A k \in Kinds, i \in 1..2 :
         /\ (Rehashing(k, i) /\ TaskVerify(k, i)) =>
               IF FileMD5(fs[candidates[i]]) = tEtag[k][i]
               THEN /\ results'[k] = Append(results[k], TagOutcome(k, i))
                    /\ errChan' = errChan
               ELSE /\ results' = results /\ errChan' = errChan
                    /\ tPc'[k][i] = "stat"
         /\ (i \in DOMAIN tPc[k] /\ tPc[k][i] = "stat" /\ TaskStat(k, i)) =>
               FailsWith(k, i, {"checksum mismatch after upload"})]_vars

\* C11 amended: a second digest different from the tag ends the put without
\* an outcome, with the checksum-mismatch error when the source can still be
\* examined and with the error of the examination when it cannot
C11_MismatchEndsWithError ==
    [][\A k \in Kinds, i \in 1..2 :
         /\ (Rehashing(k, i) /\ TaskVerify(k, i)) =>
               IF FileMD5(fs[candidates[i]]) = tEtag[k][i]
               THEN /\ results'[k] = Append(results[k], TagOutcome(k, i))
                    /\ errChan' = errChan
               ELSE /\ results' = results /\ errChan' = errChan
                    /\ tPc'[k][i] = "stat"
         /\ (i \in DOMAIN tPc[k] /\ tPc[k][i] = "stat" /\ TaskStat(k, i)) =>
               FailsWith(k, i, IF fs[candidates[i]] = 0
                               THEN {"failed to get local file info"}
                               ELSE {"checksum mismatch after upload"})]_vars

\* C11 witness: an object-store put found its entity tag different from the
\* first digest, hashed the source again, found a third digest and has ended
\* with the checksum-mismatch error and no outcome
C11_Witness ==
    /\ hPc["s3"] = "run" /\ Len(candidates) = 1 /\ tPc["s3"][1] = "done"
    /\ tEtag["s3"][1] # 0 /\ tEtag["s3"][1] # tSum["s3"][1]
    /\ results["s3"] = <<>>
    /\ Len(errChan["s3"]) = 1 /\ errChan["s3"][1][4] = "checksum mismatch after upload"

\* ---------------------------------------------------------------- C12
\* the sleeps and stats of the readiness wait of the marker in hand
WaitCounts == <<hist.wait.flushes, hist.wait.stats, hist.wait.sleeps>>

\* the bounds of one readiness wait
WaitBounds ==
    /\ hist.wait.flushes <= 1
    /\ hist.wait.stats <= DefaultMarkerFileCheckMaxAttempts
    /\ hist.wait.sleeps <= DefaultMarkerFileCheckMaxAttempts
    /\ hist.wait.held >= cfg.minSize => WaitCounts = <<0, 0, 0>>
    /\ (upPc = "match" /\ marker.Size < cfg.minSize) =>
          /\ hist.wait.stats = DefaultMarkerFileCheckMaxAttempts
          /\ hist.wait.sleeps = DefaultMarkerFileCheckMaxAttempts

\* C12: the readiness wait ends within a fixed number of steps. A held stat
\* whose size reaches minSize ends it with success, without a sleep and
\* without a new stat; otherwise it sleeps the flush delay at most once,
\* stats the marker at most maxAttempts times and sleeps the check interval
\* at most maxAttempts times, and a marker that exists and stays below
\* minSize ends it with success after maxAttempts attempts.
C12_ReadinessWaitBounded ==
    [][/\ WaitBounds'
       /\ (UpExists /\ fs[marker.Path] # 0 /\ marker.Size >= cfg.minSize) =>
             (upPc' = "match" /\ marker' = marker)
       /\ (UpWait /\ ~cancelled /\ attempts >= DefaultMarkerFileCheckMaxAttempts) =>
             (upPc' = "match" /\ marker' = marker)]_vars

\* C12 witness: a marker that stayed below minSize has been accepted after
\* one flush delay, maxAttempts stats and maxAttempts interval sleeps
C12_Witness ==
    /\ upPc = "match" /\ marker.Size < cfg.minSize
    /\ WaitCounts = <<1, DefaultMarkerFileCheckMaxAttempts, DefaultMarkerFileCheckMaxAttempts>>

\* ---------------------------------------------------------------- C13
\* C13: when the context is cancelled while the upload stage waits for a
\* marker to be ready (in one of the two delays or at the top of the loop),
\* the wait returns the cancellation error and the marker is abandoned: in
\* this run no matcher and no put runs for it, no MarkerResult is emitted for
\* it and none of its files is deleted.
C13_CancelledWaitAbandonsMarker ==
    LET m == hist.waitCancelled
    IN m # "" =>
          /\ upPc \in {"flush", "wait", "interval", "recv", "exit"}
          /\ \A k \in Kinds : hPc[k] = "idle" /\ hist.emits[m][k] = "none"
          /\ hist.prCount[m] = 0
          /\ hist.removed \cap LocalFilesOf(m) = {}

\* C13 witness: the context was cancelled during the wait for a marker, the
\* marker has reached minSize since, and the upload stage has ended
C13_Witness ==
    /\ hist.waitCancelled # "" /\ upPc = "exit"
    /\ fs[hist.waitCancelled] # 0
    /\ SizeOf(fs[hist.waitCancelled]) >= cfg.minSize

\* ---------------------------------------------------------------- C14
\* no put has started, no MarkerResult was emitted and no file was deleted
\* for the marker m, and the upload stage is not working on it
Dropped(m) ==
    /\ marker.Path = m => upPc \in {"flush", "wait", "stat", "interval", "recv", "exit"}
    /\ \A k \in Kinds : hist.emits[m][k] = "none"
    /\ hist.prCount[m] = 0
    /\ hist.removed \cap LocalFilesOf(m) = {}

\* C14: a marker whose path does not exist any more when the upload stage
\* picks it up, or whose path disappears during the readiness wait, is
\* dropped: no put, no MarkerResult, nothing deleted, and the stage goes on
\* with the next marker.
C14_VanishedMarkerDropped ==
    [][/\ (UpExists /\ fs[marker.Path] = 0) =>
             (upPc' = "recv" /\ \A k \in Kinds : hPc'[k] = "idle")
       /\ (hist.waitVanished # "" => Dropped(hist.waitVanished))']_vars

\* ---------------------------------------------------------------- C15
\* the supervisor returns in this step
SupReturns == supPc # "returned" /\ supPc' = "returned"

\* the scan cycle ends in this step
CycleEnds == supPc = "collect" /\ supPc' # "collect"

\* C15: the supervisor returns an error at the end of a scan cycle exactly
\* when stop-on-error is set and at least one error was received on the
\* error channel of that cycle; whenever it returns an error the shared
\* context is cancelled, so that the other pipelines stop.
C15_ErrorReturnIffStopOnError ==
    [][/\ CycleEnds =>
             ((SupReturns /\ supResult' = "error")
                 <=> (cfg.stopOnError /\ hist.delivered # <<>>))
       /\ (SupReturns /\ supResult' = "error") => cancelled'
       /\ (supPc = "returned" /\ supResult = "error") => (cancelled /\ cancelled')
       /\ (sibling = "running" /\ sibling' # "running") => cancelled]_vars

\* C15 witness: the supervisor has returned an error after a cycle with
\* stop-on-error in which an error was received, the context is cancelled
\* without a signal and the other pipeline has stopped
C15_Witness ==
    /\ supPc = "returned" /\ supResult = "error"
    /\ cfg.stopOnError /\ hist.delivered # <<>>
    /\ cancelled /\ ~signalled /\ sibling = "returned"

\* ---------------------------------------------------------------- C16
\* the stop-on-error condition of the cycle that ends
StopsOnError == cfg.stopOnError /\ hist.delivered # <<>>

\* C16: when a scan cycle ends without stop-on-error, the supervisor returns
\* nil after exactly one pass if polling is disabled; if polling is enabled
\* it sleeps the scan interval and then starts another cycle, and goes on
\* so until the context is cancelled or stop-on-error triggers.
C16_OnePassOrPoll ==
    [][/\ (CycleEnds /\ ~StopsOnError) =>
             IF cfg.poll
             THEN supPc' = "sleep" /\ cycle' = cycle
             ELSE supPc' = "returned" /\ supResult' = "nil" /\ cycle = 1
       /\ (supPc = "sleep" /\ supPc' # "sleep") => (supPc' = "loop" /\ cycle' = cycle)
       /\ (supPc = "loop" /\ supPc' # "loop") =>
             IF cancelled
             THEN supPc' = "returned" /\ supResult' = "nil" /\ cycle' = cycle
             ELSE supPc' = "collect" /\ cycle' = cycle + 1
       /\ (SupReturns /\ cfg.poll) => (cancelled \/ StopsOnError)]_vars

\* C16 witness: with polling enabled a cycle has ended with an error and
\* without stop-on-error, and after the sleep the next cycle has started
C16_Witness ==
    /\ cfg.poll /\ ~cfg.stopOnError /\ ~cancelled
    /\ hist.prevErrored # {}
    /\ cycle = 2 /\ supPc = "collect"

\* ---------------------------------------------------------------- C17
\* a goroutine of the pipeline sits in a delay that cannot return now
DelayBlocked ==
    \/ supPc = "sleep" /\ ~ENABLED SupWake
    \/ upPc = "flush" /\ ~ENABLED UpFlush
    \/ upPc = "interval" /\ ~ENABLED UpInterval

\* C17: once the context is cancelled the supervisor returns at once: it
\* starts no further scan cycle, it does not stay blocked in the sleep
\* between two scans, and no delay of the pipeline goes on after the
\* cancellation.
C17_NoDelayOutlivesCancel ==
    [][/\ cancelled => cycle' = cycle
       /\ (cancelled /\ supPc = "loop" /\ supPc' # "loop") => supPc' = "returned"
       /\ cancelled' => ~DelayBlocked']_vars

\* ---------------------------------------------------------------- C18
\* the regular files with the marker extension in the tree f
MarkerFiles(f) ==
    {p \in Paths : f[p] # 0 /\ cfg.mode[p] = "regular" /\ ExtOf(p) = MarkerExt}

\* the scan of this cycle ran to its end over a tree the producer left alone
QuietScan ==
    /\ scanPc = "closed" /\ ~cancelled
    /\ ~hist.scanFailed /\ hist.prodRemoved = {}

C19_MissingSwallowedOtherReported ==
    [][/\ (ScanVisit /\ fs[Head(scanQ)] = 0 /\ faults' = faults) =>
             /\ scanHit' = NoHit /\ ech' = ech /\ hist'.sent = hist.sent
             /\ scanPc' = "walking" /\ scanQ' = Tail(scanQ)
       /\ (scanPc = "idle" /\ scanPc' = "walking" /\ fs = TreeNone) =>
             (scanQ' = <<>> /\ ech' = <<>>)
       /\ hist'.scanReports <= 1
       /\ (scanPc = "failed" /\ scanPc' # "failed" /\ ~cancelled) =>
             /\ ech' = Append(ech, ScanError)
             /\ hist'.scanReports = 1
       /\ (scanPc' = "closed" /\ ~hist'.scanFailed) => hist'.scanReports = 0]_vars

\* C19 witness: a name had vanished when the walker came to it and was
\* skipped, a later step of the traversal failed for another reason, and the
\* supervisor has received the error of the scanner, once
C19_Witness ==
    /\ hist.scanFailed /\ hist.scanReports = 1 /\ ~cancelled
    /\ CountIn(hist.delivered, ScanError) = 1
    /\ \E p \in hist.prodRemoved : hist.tree[p] # 0

\* ---------------------------------------------------------------- C20
\* what the scan goroutine still has to do: a variant that every one of its
\* steps decreases
ScanMeasure ==
    4 * Len(scanQ) + (IF scanHit # NoHit THEN 1 ELSE 0)
      + (IF scanPc = "walking" THEN 2 ELSE IF scanPc = "failed" THEN 1 ELSE 0)

\* the scan goroutine has not ended
Scanning == scanPc \in {"walking", "failed"}

\* the scan goroutine can take a step
ScanCanStep == ENABLED Scanner

\* C20: the output channel of a scan is closed exactly once, after the
\* traversal has ended and never before the last ScanHit was sent; once the
\* context is cancelled the scan goroutine never stays blocked on a send,
\* and it terminates.
C20_ClosedOnceNeverBlocked ==
    [][/\ hist'.closes <= 1
       /\ (scanPc' = "closed") <=> (hist'.closes = 1)
       /\ hist'.closes > hist.closes =>
             (scanHit = NoHit /\ (scanQ = <<>> \/ scanPc = "failed"))
       /\ (scanPc = "closed" /\ scanPc' = "closed") => hist'.sent = hist.sent
       /\ (cancelled' /\ Scanning') => ScanCanStep'
       /\ Scanner => (ScanMeasure' < ScanMeasure /\ ScanMeasure' >= 0)]_vars

\* C20 witness: the context was cancelled while the scanner held a hit that
\* the upload stage could not take, the hit was given up, and the scan has
\* ended with its channel closed once
C20_Witness ==
    /\ cancelled /\ scanPc = "closed" /\ hist.closes = 1
    /\ ~hist.scanFailed /\ hist.prodRemoved = {}
    /\ \E p \in MarkerFiles(hist.tree) : CountIn(hist.sent, p) = 0

\* ---------------------------------------------------------------- walker
\* fsx.Walker over one directory of files.  walk.dir is what is left of the
\* directory stream, in the order the operating system lists the entries;
\* walk.names is what is left of the batch being visited.
Injective(o) == \A i, j \in DOMAIN o : o[i] = o[j] => i = j

pipelineVars == <<cfg, fs, remote, cancelled, signalled, sibling, timer, faults, writes,
                  supVars, scanVars, upVars, hVars, rmVars, hist>>

\* a pipeline that has not been started
IdlePipeline ==
    PipelineOf({ Scenario(Config(<<"s3">>, <<DataExt>>, 0, [poll |-> FALSE, stopOnError |-> FALSE], FALSE),
                          TreeNone, RemoteEmpty, 0, 0) })

\* a scanner over a directory whose entries the operating system lists in
\* any order, with any batch size
InitWalk ==
    /\ IdlePipeline
    /\ pool = NoPool
    /\ seqm = NoSeqm
    /\ bm = NoBm
    /\ boot = NoBoot
    /\ NoLater
    /\ \E E \in SUBSET Paths, n \in 0..MaxBatch :
          \E o \in [1..Cardinality(E) -> E] :
             /\ Injective(o)
             /\ walk = [pc |-> "read", entries |-> E, dir |-> o, batchSize |-> n,
                        names |-> <<>>, visited |-> <<>>, hits |-> <<>>]

\* names, err := w.readDirEntries(path, w.batchSize) (part_001:90, 142-159):
\* f.Readdirnames(n) returns the next n entries of the stream (all of them
\* for n <= 0), slices.Sort sorts what was returned; an empty result closes
\* the directory and ends the loop of walk (part_001:104-106)
WalkReadDir ==
    /\ walk.pc = "read"
    /\ LET n == IF walk.batchSize <= 0 \/ walk.batchSize > Len(walk.dir)
                THEN Len(walk.dir) ELSE walk.batchSize
           batch == SubSeq(walk.dir, 1, n)
       IN IF n = 0
          THEN walk' = [walk EXCEPT !.pc = "done"]
          ELSE walk' = [walk EXCEPT !.pc = "visit",
                                    !.names = SortStrings(SeqToSet(batch)),
                                    !.dir = SubSeq(walk.dir, n + 1, Len(walk.dir))]
    /\ UNCHANGED <<pipelineVars, pool, seqm, bm, boot, laterVars>>

\* for _, name := range names: w.walk(filename, fileInfo, walkFn) calls the
\* callback of scanner.Scan for a file (part_001:108-124, 85-87), which hands
\* over a regular file with the marker extension (handler.go:208-236)
WalkVisit ==
    /\ walk.pc = "visit"
    /\ LET name == Head(walk.names)
       IN walk' = [walk EXCEPT
             !.visited = Append(@, name),
             !.hits = IF ExtOf(name) = MarkerExt THEN Append(@, name) ELSE @,
             !.names = Tail(@),
             !.pc = IF Tail(walk.names) = <<>> THEN "read" ELSE "visit"]
    /\ UNCHANGED <<pipelineVars, pool, seqm, bm, boot, laterVars>>

NextWalk == WalkReadDir \/ WalkVisit

SpecWalk == InitWalk /\ [][NextWalk]_vars

\* C21: the walker visits the entries of a directory in ascending lexical
\* order of their names for every batch size and whatever order the operating
\* system lists them in, so the hits of a scan are the marker files of the
\* directory in ascending order whatever the listing order.
C21_VisitsInLexicalOrder ==
    /\ \A i, j \in 1..Len(walk.visited) :
          i < j => StrLess(walk.visited[i], walk.visited[j])
    /\ walk.pc = "done" =>
          walk.hits = SortStrings({p \in walk.entries : ExtOf(p) = MarkerExt})

\* ---------------------------------------------------------------- processor pool
\* startPipeline with MaxProcessors processors sharing the items channel of
\* one scanner.  A processor is the upload goroutine (pool.up), the remove
\* goroutine (pool.rm) and Process itself, which forwards errors (pool.fw);
\* the work on one marker is a single step here, the pipeline model above
\* has its detail.  pool.files are the marker files of the scan root.
PoolFlags == Flags

InitPool ==
    /\ IdlePipeline
    /\ walk = NoWalk
    /\ seqm = NoSeqm
    /\ bm = NoBm
    /\ boot = NoBoot
    /\ NoLater
    /\ \E F \in SUBSET MarkerPaths, fl \in PoolFlags :
          pool = [NoPool EXCEPT !.sup = "loop", !.files = F, !.flags = fl]

\* cancelFunc() (upload.go:96, 106, 116)
PoolCancel ==
    /\ ~pool.cancelled
    /\ pool.sup # "returned"
    /\ pool' = [pool EXCEPT !.cancelled = TRUE]
    /\ UNCHANGED <<pipelineVars, walk, seqm, bm, boot, laterVars>>

\* top of the loop of startPipeline (upload.go:184-206): return on ctx.Done,
\* otherwise make ech, start the scan and one Process goroutine per processor
PoolStartCycle ==
    /\ pool.sup = "loop"
    /\ IF pool.cancelled
       THEN pool' = [pool EXCEPT !.sup = "returned"]
       ELSE /\ pool.cycle < MaxCycles
            /\ pool' = [pool EXCEPT
                  !.sup = "collect", !.cycle = @ + 1,
                  !.scan = SortStrings(pool.files), !.itemsClosed = FALSE,
                  !.up = [w \in Workers |-> "recv"], !.rm = [w \in Workers |-> "recv"],
                  !.fw = [w \in Workers |-> "run"], !.sch = [w \in Workers |-> 0],
                  !.ech = 0, !.echClosed = FALSE, !.errorFound = FALSE,
                  !.listed = pool.files, !.received = {}]
    /\ UNCHANGED <<pipelineVars, walk, seqm, bm, boot, laterVars>>

\* the scanner's callback gives up a hit on ctx.Done (handler.go:228-236)
PoolScanSkip ==
    /\ pool.sup # "idle" /\ pool.cycle > 0
    /\ pool.cancelled /\ pool.scan # <<>>
    /\ pool' = [pool EXCEPT !.scan = Tail(@)]
    /\ UNCHANGED <<pipelineVars, walk, seqm, bm, boot, laterVars>>

\* the walk is over: deferred close(items) (handler.go:190)
PoolScanClose ==
    /\ pool.cycle > 0
    /\ pool.scan = <<>> /\ ~pool.itemsClosed
    /\ pool' = [pool EXCEPT !.itemsClosed = TRUE]
    /\ UNCHANGED <<pipelineVars, walk, seqm, bm, boot, laterVars>>

\* mutant: the hit handed to a worker stays in the channel for the others
PoolRecv_Shared(w) ==
    /\ pool.up[w] = "recv"
    /\ pool.scan # <<>>
    /\ LET m == Head(pool.scan)
       IN /\ <<m, w>> \notin pool.received
          /\ pool' = [pool EXCEPT
                !.received = @ \cup {<<m, w>>},
                !.up[w] = IF pool.cancelled THEN "recv" ELSE "work",
                !.upM[w] = IF pool.cancelled THEN @ ELSE m]
    /\ UNCHANGED <<pipelineVars, walk, seqm, bm, boot, laterVars>>

\* `for marker := range markers` of upload receives the hit the scanner sends
\* on the unbuffered items channel (handler.go:228-229, processor.go:186);
\* on ctx.Done the hit is dropped (187-189), so it is when the marker is
\* gone, not ready or without candidates (191-222); otherwise it is put
PoolRecv(w) ==
    /\ pool.up[w] = "recv"
    /\ pool.scan # <<>>
    /\ LET m == Head(pool.scan)
       IN \E skip \in BOOLEAN :
             pool' = [pool EXCEPT
                !.scan = Tail(@),
                !.received = @ \cup {<<m, w>>},
                !.up[w] = IF pool.cancelled \/ skip THEN "recv" ELSE "work",
                !.upM[w] = IF pool.cancelled \/ skip THEN @ ELSE m]
    /\ UNCHANGED <<pipelineVars, walk, seqm, bm, boot, laterVars>>

\* the puts of all storages have ended (processor.go:233-257), with or
\* without an error
PoolPut(w) ==
    /\ pool.up[w] = "work"
    /\ \E ok \in BOOLEAN :
          pool' = [pool EXCEPT !.up[w] = "send", !.upOk[w] = ok]
    /\ UNCHANGED <<pipelineVars, walk, seqm, bm, boot, laterVars>>

\* select { case processed <- pr: ; case <-ctx.Done(): return }
\* (processor.go:260-264): processed is unbuffered, remove receives
PoolSend(w) ==
    /\ pool.up[w] = "send"
    /\ \/ /\ pool.rm[w] = "recv"
          /\ pool' = [pool EXCEPT !.up[w] = "recv", !.rm[w] = "got",
                                  !.rmM[w] = pool.upM[w], !.rmOk[w] = pool.upOk[w],
                                  !.upM[w] = ""]
       \/ /\ pool.cancelled
          /\ pool' = [pool EXCEPT !.up[w] = "closed", !.upM[w] = ""]
    /\ UNCHANGED <<pipelineVars, walk, seqm, bm, boot, laterVars>>

\* items is closed and drained: the upload goroutine returns and closes
\* processed (processor.go:185-186)
PoolUpClosed(w) ==
    /\ pool.up[w] = "recv"
    /\ pool.scan = <<>> /\ pool.itemsClosed
    /\ pool' = [pool EXCEPT !.up[w] = "closed"]
    /\ UNCHANGED <<pipelineVars, walk, seqm, bm, boot, laterVars>>

\* remove, for one result (processor.go:295-353): return on ctx.Done; push
\* the error of an errored result to sch (capacity 1); otherwise delete the
\* local files of the marker
PoolRemove(w) ==
    /\ pool.rm[w] = "got"
    /\ \/ /\ pool.cancelled
          /\ pool' = [pool EXCEPT !.rm[w] = "closed", !.rmM[w] = ""]
       \/ /\ ~pool.cancelled /\ ~pool.rmOk[w]
          /\ pool.sch[w] < 1
          /\ pool' = [pool EXCEPT !.rm[w] = "recv", !.rmM[w] = "", !.sch[w] = @ + 1]
       \/ /\ ~pool.cancelled /\ pool.rmOk[w]
          /\ pool' = [pool EXCEPT !.rm[w] = "recv", !.rmM[w] = "",
                                  !.files = @ \ {pool.rmM[w]}]
    /\ UNCHANGED <<pipelineVars, walk, seqm, bm, boot, laterVars>>

\* processed is closed: the remove goroutine returns and closes sch
\* (processor.go:293-294)
PoolRmClosed(w) ==
    /\ pool.rm[w] = "recv"
    /\ pool.up[w] = "closed"
    /\ pool' = [pool EXCEPT !.rm[w] = "closed"]
    /\ UNCHANGED <<pipelineVars, walk, seqm, bm, boot, laterVars>>

\* Process copies an error from sch to ech (capacity 1), or returns on
\* ctx.Done (processor.go:69-77)
PoolForward(w) ==
    /\ pool.fw[w] = "run"
    /\ pool.sch[w] > 0
    /\ \/ /\ pool.ech < 1
          /\ pool' = [pool EXCEPT !.sch[w] = @ - 1, !.ech = @ + 1]
       \/ /\ pool.cancelled
          /\ pool' = [pool EXCEPT !.sch[w] = @ - 1, !.fw[w] = "returned"]
    /\ UNCHANGED <<pipelineVars, walk, seqm, bm, boot, laterVars>>

\* sch is closed and drained: Process returns (processor.go:69, 78)
PoolReturn(w) ==
    /\ pool.fw[w] = "run"
    /\ pool.sch[w] = 0 /\ pool.rm[w] = "closed"
    /\ pool' = [pool EXCEPT !.fw[w] = "returned"]
    /\ UNCHANGED <<pipelineVars, walk, seqm, bm, boot, laterVars>>

\* pwg.Wait(); close(ech) (upload.go:209-222)
PoolJoin ==
    /\ pool.sup = "collect"
    /\ ~pool.echClosed
    /\ \A w \in Workers : pool.fw[w] = "returned"
    /\ pool' = [pool EXCEPT !.echClosed = TRUE]
    /\ UNCHANGED <<pipelineVars, walk, seqm, bm, boot, laterVars>>

\* for err := range ech (upload.go:224-231)
PoolCollect ==
    /\ pool.sup = "collect"
    /\ pool.ech > 0
    /\ pool' = [pool EXCEPT !.ech = @ - 1, !.errorFound = TRUE]
    /\ UNCHANGED <<pipelineVars, walk, seqm, bm, boot, laterVars>>

\* ech is closed and drained: return, or sleep the scan interval and go
\* back to the top of the loop (upload.go:233-246)
PoolEndCycle ==
    /\ pool.sup = "collect"
    /\ pool.ech = 0 /\ pool.echClosed
    /\ pool' = [pool EXCEPT !.sup =
          IF (pool.errorFound /\ pool.flags.stopOnError) \/ ~pool.flags.poll
          THEN "returned" ELSE "loop"]
    /\ UNCHANGED <<pipelineVars, walk, seqm, bm, boot, laterVars>>

NextPool ==
    \/ PoolCancel
    \/ PoolStartCycle
    \/ PoolScanSkip
    \/ PoolScanClose
    \/ \E w \in Workers : PoolRecv(w)
    \/ \E w \in Workers : PoolPut(w)
    \/ \E w \in Workers : PoolSend(w)
    \/ \E w \in Workers : PoolUpClosed(w)
    \/ \E w \in Workers : PoolRemove(w)
    \/ \E w \in Workers : PoolRmClosed(w)
    \/ \E w \in Workers : PoolForward(w)
    \/ \E w \in Workers : PoolReturn(w)
    \/ PoolJoin
    \/ PoolCollect
    \/ PoolEndCycle

SpecPool == InitPool /\ [][NextPool]_vars

\* worker w holds marker m in its upload or its remove stage
Processing(w, m) ==
    \/ pool.up[w] \in {"work", "send"} /\ pool.upM[w] = m
    \/ pool.rm[w] = "got" /\ pool.rmM[w] = m

ReceiversOf(m) == {w \in Workers : <<m, w>> \in pool.received}

\* all goroutines of every processor of the cycle have returned
WorkersReturned ==
    \A w \in Workers :
       pool.up[w] = "closed" /\ pool.rm[w] = "closed" /\ pool.fw[w] = "returned"

RECURSIVE Digits(_)
Digits(n) == IF n < 10 THEN <<n>> ELSE Append(Digits(n \div 10), n % 10)

\* fmt.Sprintf("%0wd", n): the decimal digits of n, padded with zeros on the
\* left to at least w digits
Sprintf0(w, n) ==
    LET d == Digits(n)
    IN [j \in 1..(IF Len(d) < w THEN w - Len(d) ELSE 0) |-> 0] \o d

PlainFile == [kind |-> "plain", num |-> <<>>]
SeqFile(ds) == [kind |-> "seq", num |-> ds]

\* the widths of the run of '#' of the patterns examined
Widths == {1, 2}
PlainPattern == [sequenced |-> FALSE, width |-> 0]
SeqPattern(w) == [sequenced |-> TRUE, width |-> w]

\* a directory holding any of the files numbered 0..MaxCounter in the width of
\* the pattern, the file numbered 1 in another width, and the file of a
\* pattern without '#'
InitSeqm ==
    /\ IdlePipeline
    /\ walk = NoWalk /\ pool = NoPool /\ bm = NoBm /\ boot = NoBoot
    /\ NoLater
    /\ \E w \in Widths :
          \E N \in SUBSET (0..MaxCounter), X \in SUBSET {PlainFile, SeqFile(Sprintf0(w + 1, 1))},
             ps \in {<<>>, <<SeqPattern(w)>>, <<PlainPattern, SeqPattern(w)>>} :
             seqm = [pc |-> "pattern",
                     files |-> {SeqFile(Sprintf0(w, n)) : n \in N} \cup X,
                     patterns |-> ps, idx |-> 1, i |-> 0, matches |-> <<>>]

\* for _, pattern := range cfg.Patterns (part_002:31-59): a pattern without
\* '#' names one file, taken if os.Stat finds it; a pattern with a run of '#'
\* starts the search with i = 0; after the last pattern matches is returned
SeqPattern_Next ==
    /\ seqm.pc = "pattern"
    /\ IF seqm.idx > Len(seqm.patterns)
       THEN seqm' = [seqm EXCEPT !.pc = "done"]
       ELSE IF ~seqm.patterns[seqm.idx].sequenced
            THEN seqm' = [seqm EXCEPT
                    !.matches = IF PlainFile \in seqm.files THEN Append(@, PlainFile) ELSE @,
                    !.idx = @ + 1]
            ELSE seqm' = [seqm EXCEPT !.pc = "probe", !.i = 0]
    /\ UNCHANGED <<pipelineVars, walk, pool, bm, boot, laterVars>>

\* mutant: the search goes on after a file that does not exist
SeqProbe_PastGap ==
    /\ seqm.pc = "probe"
    /\ LET f == SeqFile(Sprintf0(seqm.patterns[seqm.idx].width, seqm.i + 1))
       IN IF seqm.i < MaxCounter
          THEN seqm' = [seqm EXCEPT
                  !.matches = IF f \in seqm.files THEN Append(@, f) ELSE @,
                  !.i = @ + 1]
          ELSE seqm' = [seqm EXCEPT !.pc = "pattern", !.idx = @ + 1]
    /\ UNCHANGED <<pipelineVars, walk, pool, bm, boot, laterVars>>

\* one turn of the search loop (part_002:60-79): the file numbered i+1 is
\* appended if os.Stat finds it, otherwise the search of the pattern ends
SeqProbe ==
    /\ seqm.pc = "probe"
    /\ LET f == SeqFile(Sprintf0(seqm.patterns[seqm.idx].width, seqm.i + 1))
       IN IF f \in seqm.files
          THEN seqm' = [seqm EXCEPT !.matches = Append(@, f), !.i = @ + 1]
          ELSE seqm' = [seqm EXCEPT !.pc = "pattern", !.idx = @ + 1]
    /\ UNCHANGED <<pipelineVars, walk, pool, bm, boot, laterVars>>

NextSeqm == SeqPattern_Next \/ SeqProbe

SpecSeqm == InitSeqm /\ [][NextSeqm]_vars

\* the files of the directory that stand for counter n in width w
Numbered(w, n) == SeqFile(Sprintf0(w, n))

\* the largest k such that the files of all of 1..k exist
RunLength(w) ==
    CHOOSE k \in 0..(MaxCounter + 1) :
       /\ \A n \in 1..k : Numbered(w, n) \in seqm.files
       /\ Numbered(w, k + 1) \notin seqm.files

\* the matches that come from the sequenced pattern
SeqMatches == SelectSeq(seqm.matches, LAMBDA f : f.kind = "seq")

\* the largest k such that all of 1..k have a decimal of exactly w digits
\* whose file exists
RunLengthInWidth(w) ==
    CHOOSE k \in 0..(MaxCounter + 1) :
       /\ \A n \in 1..k : Len(Digits(n)) <= w /\ Numbered(w, n) \in seqm.files
       /\ ~(Len(Digits(k + 1)) <= w /\ Numbered(w, k + 1) \in seqm.files)

BasicPatterns == {"", DataExt, MarkerExt, "*"}

InitBm ==
    /\ IdlePipeline
    /\ walk = NoWalk /\ pool = NoPool /\ seqm = NoSeqm /\ boot = NoBoot
    /\ NoLater
    /\ \E m \in MarkerPaths, n \in 0..MaxPatterns, F \in SUBSET Paths :
          \E ps \in [1..n -> BasicPatterns] :
             bm = [NoBm EXCEPT !.pc = "call", !.marker = m, !.patterns = ps,
                               !.files = [p \in Paths |-> IF p \in F THEN 1 ELSE 0]]

NotAnExtension == <<"is not a valid file extension">>

\* mutant: the matches found before the pattern that is not an extension
\* are returned with the error
BasicMatch_KeepPartial ==
    /\ bm.pc = "call"
    /\ LET bad == {i \in 1..Len(bm.patterns) : ~IsFileExtension(bm.patterns[i])}
           first == CHOOSE i \in bad : \A j \in bad : i <= j
       IN IF bad # {}
          THEN bm' = [bm EXCEPT !.pc = "done", !.err = NotAnExtension,
                         !.matches = MatchFiles(bm.marker, SubSeq(bm.patterns, 1, first - 1), bm.files)]
          ELSE bm' = [bm EXCEPT !.pc = "done",
                         !.matches = MatchFiles(bm.marker, bm.patterns, bm.files)]
    /\ UNCHANGED <<pipelineVars, walk, pool, seqm, boot, laterVars>>

\* matches, err := MatchFiles(marker, cfg) (basic_file_matcher.go:24-55):
\* `return nil, fmt.Errorf(...)` at the first pattern that is not an
\* extension, otherwise the candidates os.Stat finds
BasicMatch ==
    /\ bm.pc = "call"
    /\ IF MatchFails(bm.patterns)
       THEN bm' = [bm EXCEPT !.pc = "done", !.err = NotAnExtension, !.matches = <<>>]
       ELSE bm' = [bm EXCEPT !.pc = "done",
                      !.matches = MatchFiles(bm.marker, bm.patterns, bm.files)]
    /\ UNCHANGED <<pipelineVars, walk, pool, seqm, boot, laterVars>>

NextBm == BasicMatch

SpecBm == InitBm /\ [][NextBm]_vars

\* the patterns whose file <markerBaseName><ext> exists, in pattern order
PatternsFound ==
    SelectSeq(bm.patterns,
              LAMBDA e : CombineFilePath(BaseOf(bm.marker), e) \in Paths
                         /\ bm.files[CombineFilePath(BaseOf(bm.marker), e)] # 0)

\* C24: with extension patterns the basic matcher returns, without error,
\* exactly the paths <markerBaseName><ext> of the patterns whose file
\* exists, in pattern order; if any pattern is not an extension it returns
\* an error and no matches.
C24_BasicMatchesInPatternOrder ==
    bm.pc = "done" =>
       IF \A i \in 1..Len(bm.patterns) : bm.patterns[i] = "" \/ bm.patterns[i] \in Exts
       THEN /\ bm.err = NoErr
            /\ bm.matches = [j \in 1..Len(PatternsFound) |->
                                CombineFilePath(BaseOf(bm.marker), PatternsFound[j])]
       ELSE bm.err # NoErr /\ bm.matches = <<>>

\* the matcher has returned the marker and nothing for the pattern of the
\* missing data file
C24_Witness ==
    /\ bm.pc = "done" /\ bm.err = NoErr
    /\ bm.marker = "a.mf" /\ bm.patterns = <<DataExt, MarkerExt>>
    /\ bm.files["a.dat"] = 0 /\ bm.files["a.mf"] # 0
    /\ bm.matches = <<"a.mf">>

\* the remover is about to push the error of a failed delete
PushOfDeleteError == RmPush /\ rmResp.Error = NoErr

\* the remover's step on a path of the RemoveSet that exists and stays
DeleteFails == RmRemove /\ rmList # <<>> /\ fs[Head(rmList)] # 0 /\ fs'[Head(rmList)] # 0

\* the remover's step on a path of the RemoveSet that no longer exists
DeleteSkipped == RmRemove /\ rmList # <<>> /\ fs[Head(rmList)] = 0

\* a failed delete is noted and the path is left behind; a path that is gone
\* is passed over without error
DeleteOutcomes ==
    /\ DeleteFails =>
          /\ rmErr' = <<"remove failed", Head(rmList)>> /\ rmPc' = "push"
          /\ rmList' = Tail(rmList) /\ sch' = sch
    /\ DeleteSkipped =>
          /\ rmErr' = NoErr /\ rmPc' = "rm"
          /\ rmList' = Tail(rmList) /\ sch' = sch /\ fs' = fs

\* the error is on the error stream and the rest of the set comes next
PushedAndContinued ==
    /\ sch' = Append(sch, rmErr)
    /\ rmList' = rmList
    /\ rmPc' = IF rmList = <<>> THEN "recv" ELSE "rm"

\* C25 (as stated): the error of a failed delete is pushed to the error
\* stream and removal continues with the next path of the same RemoveSet; a
\* path of the RemoveSet that no longer exists is skipped without error.
C25_DeleteErrorPushedAndContinued ==
    [][DeleteOutcomes /\ (PushOfDeleteError => PushedAndContinued)]_vars

\* C25 (amended): as above, unless ctx is cancelled when the error is
\* pushed: then the remover may return without pushing it, leaving the rest
\* of the set.
C25_DeleteErrorPushedUnlessCancelled ==
    [][/\ DeleteOutcomes
       /\ PushOfDeleteError =>
             \/ PushedAndContinued
             \/ cancelled /\ rmPc' = "exit" /\ sch' = sch /\ fs' = fs]_vars

\* the delete of the data file failed, its error reached the supervisor, and
\* the marker file, next in the same RemoveSet, was deleted
C25_Witness ==
    /\ ~cancelled
    /\ hist.rmFailed = {"a.dat"} /\ fs["a.dat"] # 0
    /\ "a.mf" \in hist.removed
    /\ \E i \in 1..Len(hist.delivered) : hist.delivered[i] = <<"remove failed", "a.dat">>

\* ---------------------------------------------------------------- bucket bootstrap
\* newS3Handler, from `for i := 0; i < 300; i++` on.  boot.err is the number
\* of the attempt whose error is held (0: nil), boot.cancelled the state of
\* the context of the run (runUpload), boot.timer the timer of ApplyDelay.
InitBoot ==
    /\ IdlePipeline
    /\ walk = NoWalk /\ pool = NoPool /\ seqm = NoSeqm /\ bm = NoBm
    /\ boot = [NoBoot EXCEPT !.pc = "attempt"]
    /\ NoLater

\* cancelFunc() of the run (upload.go:40, 113-116)
BootCancel ==
    /\ boot.pc \in {"attempt", "delay"}
    /\ ~boot.cancelled
    /\ boot' = [boot EXCEPT !.cancelled = TRUE]
    /\ UNCHANGED <<pipelineVars, walk, pool, seqm, bm, laterVars>>

\* err = s3.ensureBucketExists(ctx) (part_007:268-292): break on success,
\* otherwise core.ApplyDelay(ctx, time.Second) starts its timer
BootAttempt ==
    /\ boot.pc = "attempt"
    /\ \/ boot' = [boot EXCEPT !.pc = "ready", !.err = 0, !.calls = @ + 1]
       \/ boot' = [boot EXCEPT !.pc = "delay", !.err = boot.i + 1, !.calls = @ + 1,
                               !.timer = "running"]
    /\ UNCHANGED <<pipelineVars, walk, pool, seqm, bm, laterVars>>

\* a second has passed
BootTick ==
    /\ boot.timer = "running"
    /\ boot' = [boot EXCEPT !.timer = "fired"]
    /\ UNCHANGED <<pipelineVars, walk, pool, seqm, bm, laterVars>>

\* ApplyDelay returns (part_008:32-44): its ctx is context.Background()
\* (part_007:267), which is never done, so only the timer ends it; i++ and
\* the loop test follow, and `return nil, err` after the last attempt
\* (part_007:294-296)
BootDelay ==
    /\ boot.pc = "delay"
    /\ boot.timer = "fired"
    /\ boot' = [boot EXCEPT
          !.timer = "idle", !.delays = @ + 1, !.i = @ + 1,
          !.pc = IF boot.i + 1 < BootstrapAttempts THEN "attempt" ELSE "failed"]
    /\ UNCHANGED <<pipelineVars, walk, pool, seqm, bm, laterVars>>

NextBoot == BootCancel \/ BootAttempt \/ BootTick \/ BootDelay

SpecBoot == InitBoot /\ [][NextBoot]_vars

\* at most 300 attempts, none after a success, the error of the 300th failed
\* attempt returned, a delay after each failed attempt
BootstrapRetries ==
    /\ boot.calls <= BootstrapAttempts
    /\ boot.pc = "ready" => (boot.err = 0 /\ boot.calls = boot.i + 1 /\ boot.delays = boot.i)
    /\ boot.pc = "failed" =>
          (boot.err = BootstrapAttempts /\ boot.calls = BootstrapAttempts)
    /\ boot.pc = "attempt" => boot.delays = boot.calls

\* C26: the construction of an object-store handler tries the bucket
\* bootstrap at most 300 times with a delay of 1 s between attempts, stops at
\* the first success, fails with the last error after 300 failed attempts,
\* and is interrupted when the context is cancelled: once the context is
\* cancelled no delay is waited for and no further attempt is made.
C26_BootstrapBoundedAndInterruptible ==
    [][/\ BootstrapRetries'
       /\ (boot.cancelled /\ boot.pc = "delay") => ENABLED BootDelay
       /\ boot.cancelled => boot'.calls = boot.calls]_vars

\* a task of the parallel put of backend k is stuck in its send on errChan
SendBlocked(k) == \E i \in 1..Len(tPc[k]) : tPc[k][i] = "blocked"

\* C27: in the handler's parallel put the errors pushed to the local error
\* channel never exceed len(candidates), so no send on that channel ever
\* blocks, whatever candidates are missing and whatever puts fail.
C27_ErrChanNeverBlocks ==
    \A k \in Kinds :
       /\ Len(errChan[k]) <= Len(candidates)
       /\ ~SendBlocked(k)

\* every single-file put of the parallel put of backend k has returned (the
\* task of a failed one may still be in its send on errChan)
PutsReturned(k) ==
    /\ hPc[k] = "run"
    /\ \A i \in 1..Len(tPc[k]) : tPc[k][i] \in {"done", "blocked"}

CanJoin(k) == ENABLED HandlerJoin(k)

\* the Put of backend k has returned having emitted its BackendResult, or
\* with ctx cancelled
EmittedUnlessCancelled(k) ==
    hPc[k] = "done" => (hist.emits[marker.Path][k] # "none" \/ cancelled)

\* C28: a call of the handler's Put goes on to its end once all its
\* single-file puts have returned, and it emits exactly one BackendResult
\* unless ctx is cancelled while it emits.
C28_PutEndsAndEmitsOnce ==
    \A k \in Kinds :
       /\ PutsReturned(k) => CanJoin(k)
       /\ EmittedUnlessCancelled(k)

\* the step in which the Put of backend k builds its BackendResult: after a
\* failed pre-sync, or after wg.Wait
PreSyncFailed(k) == hPc[k] = "start" /\ hPc'[k] = "emit"
Joined(k) == hPc[k] = "run" /\ hPc'[k] = "emit"

\* the existence check of runParallel found a candidate missing
MissingAtCheck(k) ==
    \E n \in 1..Len(errChan[k]) : errChan[k][n][1] = "candidate file is missing"

\* a single-file put of backend k ended without an outcome
PutFailed(k) ==
    \E i \in 1..Len(candidates) :
       \A j \in 1..Len(results[k]) : results[k][j].Src # candidates[i]

\* the outcome list r holds exactly one outcome per candidate
OnePerCandidate(r) ==
    /\ Len(r) = Len(candidates)
    /\ \A i \in 1..Len(candidates) :
          Cardinality({j \in 1..Len(r) : r[j] # NilInfo /\ r[j].Src = candidates[i]}) = 1

\* the BackendResult r has the outcomes its error calls for
WellFormed(r) ==
    IF r.Error = NoErr THEN OnePerCandidate(r.UploadResults)
                       ELSE r.UploadResults = <<>>

\* the step in which backend k hands its BackendResult to the accumulation loop
Emits(k) == hPc[k] = "emit" /\ hPc'[k] = "done" /\ hist' # hist

BuiltAsClaimed(k) ==
    /\ PreSyncFailed(k) => hResult'[k].Error # NoErr
    /\ Joined(k) =>
          (hResult'[k].Error # NoErr <=> (MissingAtCheck(k) \/ PutFailed(k)))
    /\ (PreSyncFailed(k) \/ Joined(k)) => WellFormed(hResult'[k])

EmittedAsBuilt(k) ==
    Emits(k) => (hist'.emitted[k] = hResult[k] /\ WellFormed(hist'.emitted[k]))

\* C29: a BackendResult the handler emits has an error if and only if
\* pre-sync failed, a candidate was missing or a single-file put failed; with
\* no error it holds exactly one outcome per candidate, with an error none.
C29_ErrorIffFailureAndOutcomes ==
    [][\A k \in Kinds : BuiltAsClaimed(k) /\ EmittedAsBuilt(k)]_vars

\* a result without error and with outcomes has been emitted, and so has one
\* with an error
C29_Witness ==
    \E k, l \in Kinds :
       /\ hist.emitted[k] # NoRes /\ hist.emitted[k].Error = NoErr
       /\ Len(hist.emitted[k].UploadResults) = Len(candidates) /\ Len(candidates) > 0
       /\ hist.emitted[l] # NoRes /\ hist.emitted[l].Error # NoErr

\* a candidate of the marker is not on disk
SomeCandidateMissing == \E i \in 1..Len(candidates) : fs[candidates[i]] = 0

\* the step in which backend k leaves the start of runParallel past pre-sync
PastPreSync(k) ==
    /\ hPc[k] = "start" /\ hPc'[k] # "start"
    /\ ~(hPc'[k] = "emit" /\ hResult'[k].Error = <<"pre-sync validation failed", k>>)

\* a task has been started for every candidate
AllTasksStarted(k) ==
    /\ hPc[k] = "run"
    /\ Len(tPc[k]) = Len(candidates)
    /\ \A i \in 1..Len(candidates) : tPc[k][i] = "start"

\* the single-file put of every candidate has been attempted and has returned
AllPutsAttempted(k) ==
    /\ Len(tPc[k]) = Len(candidates)
    /\ \A i \in 1..Len(candidates) : tPc[k][i] = "done"

MissingCandidateHandled(k) ==
    /\ (PastPreSync(k) /\ SomeCandidateMissing) =>
          (MissingAtCheck(k)' /\ AllTasksStarted(k)')
    /\ (Joined(k) /\ MissingAtCheck(k)) =>
          (AllPutsAttempted(k) /\ hResult'[k].Error # NoErr)
    /\ (Emits(k) /\ hResult[k].Error # NoErr) => hist'.emitted[k].Error # NoErr

PreSyncError(k) == <<"pre-sync validation failed", k>>

\* the step of runParallel in which the pre-sync hook of backend k fails
PreSyncFails(k) == hPc[k] = "start" /\ hPc'[k] # "start" /\ faults' < faults

\* the BackendResult of backend k waiting to be emitted is that of a failed
\* pre-sync
PreSyncResult(k) == hPc[k] = "emit" /\ hResult[k].Error = PreSyncError(k)

\* no single-file put of backend k has been started
NoPutInvoked(k) == tPc[k] = <<>> /\ results[k] = <<>> /\ errChan[k] = <<>>

\* the result of a failed pre-sync: its error, no outcome, and no task
PreSyncFailureBuilt(k) ==
    /\ PreSyncFails(k) =>
          /\ hPc'[k] = "emit"
          /\ hResult'[k].Error = PreSyncError(k)
          /\ hResult'[k].UploadResults = <<>>
          /\ NoPutInvoked(k)'
    /\ PreSyncResult(k) => (NoPutInvoked(k) /\ NoPutInvoked(k)')

\* Put returns after a failed pre-sync having emitted its result
PreSyncFailureEmitted(k) ==
    (PreSyncResult(k) /\ hPc'[k] = "done") =>
        (hist'.emitted[k] = hResult[k] /\ hist'.emits[marker.Path][k] = "err")

\* C31 as stated: after a failed pre-sync Put emits a single BackendResult
\* with the pre-sync error and no outcome, and invokes no single-file put.
C31_PreSyncFailureEmitsError ==
    [][\A k \in Kinds : PreSyncFailureBuilt(k) /\ PreSyncFailureEmitted(k)]_vars

\* C31 amended: ... Put emits that single BackendResult unless ctx is
\* cancelled while it emits, in which case it emits none.
C31_PreSyncFailureEmitsErrorUnlessCancelled ==
    [][\A k \in Kinds :
          PreSyncFailureBuilt(k) /\ (PreSyncFailureEmitted(k) \/ cancelled)]_vars

\* the result of a failed pre-sync has been emitted
C31_Witness ==
    \E k \in Kinds :
       /\ hist.emitted[k] # NoRes
       /\ hist.emitted[k].Error = PreSyncError(k)
       /\ hist.emitted[k].UploadResults = <<>>
       /\ hPc[k] = "done"

\* the forwarder of the processor is at its send on the error channel of the
\* cycle; it returns before the joiner closes the channel
ForwarderAtSend == fwPc = "send"

\* the scanner has taken the send case of its select on the closed error
\* channel
SentOnClosedEch == scanPc = "crashed"

\* C33: no task sends on the error channel of a scan cycle after the joiner
\* has closed it, cancellation during the traversal included.
C33_NoSendOnClosedEch ==
    /\ echClosed => ~ForwarderAtSend
    /\ ~SentOnClosedEch

\* a step of a goroutine of the pipeline, or of the timer of its delays
PipelineStep ==
    Supervisor \/ Scanner \/ Uploader \/ Handlers \/ Remover \/ Forwarder \/ Tick

\* startPipeline has returned, or the program has ended
PipelineEnded == supPc = "returned" \/ scanPc = "crashed"

\* no goroutine of the pipeline can ever take a step again
Stuck == ~PipelineEnded /\ ~ENABLED PipelineStep

\* C34: after ctx is cancelled every task of the pipeline terminates and
\* startPipeline returns, every single-file put having returned; no task
\* stays blocked for ever on a channel send or receive.
C34_CancelledPipelineEnds ==
    cancelled => ~Stuck

\* the step in which the upload stage takes a marker off the markers channel
MarkerReceived == Len(hist'.sent) > Len(hist.sent)

\* the step in which the remover takes a MarkerResult off the results channel
ResultReceived == \E m \in MarkerPaths : hist'.prCount[m] > hist.prCount[m]

\* the step in which the Puts of a marker are started
PutsStarted == \E k \in Kinds : hPc[k] = "idle" /\ hPc'[k] # "idle"

\* the step in which a local file is deleted
Deletes == hist'.removed \ hist.removed # {}

DiscardsAfterCancel ==
    /\ (cancelled /\ MarkerReceived) =>
          /\ upPc' = "recv" /\ marker' = marker
          /\ ~PutsStarted /\ hist'.scanned = hist.scanned
    /\ PutsStarted => marker.Path \in hist.scanned
    /\ (cancelled /\ ResultReceived) =>
          /\ rmPc' = "exit" /\ rmList' = rmList /\ rmResp' = rmResp
          /\ ~Deletes
    /\ Deletes => (rmPc = "rm" /\ rmList # <<>> /\ hist.prCount[rmResp.Path] >= 1)

\* C35: a marker the worker receives after the cancellation of ctx is
\* discarded without a backend put, and the remover begins no deletion for
\* a MarkerResult it receives after the cancellation.
C35_NothingStartedAfterCancel ==
    [][DiscardsAfterCancel]_vars

\* a marker was received after the cancellation and discarded, and the remover
\* has returned on a result it received after the cancellation
C35_Witness ==
    /\ cancelled
    /\ \E i \in 1..Len(hist.sent) : hist.sent[i] \notin hist.scanned
    /\ rmPc = "exit" /\ upPc = "recv"
    /\ \E m \in MarkerPaths : hist.prCount[m] >= 1 /\ fs[m] # 0 /\ hist.removed = {}

\* the errors of the cycle that come from a processor, in the channels of the
\* error sink and already read by the supervisor
ProcessorErrors ==
    {e \in SeqToSet(ech) \cup SeqToSet(sch) \cup SeqToSet(hist.delivered)
           \cup {fwErr, rmErr} : e # NoErr /\ e # ScanError}

\* the step in which prepareUploadCandidates fails for the current marker
CandidatesFail == upPc = "match" /\ upPc' # "match" /\ MatchFails(cfg.patterns)

\* nothing has been done for any marker of the cycle
NothingDone ==
    /\ \A k \in Kinds : hPc[k] = "idle" /\ tPc[k] = <<>>
    /\ \A m \in MarkerPaths :
          hist.prCount[m] = 0 /\ \A k \in Kinds : hist.emits[m][k] = "none"
    /\ upPc # "send" /\ pr.Error = NoErr
    /\ hist.removed = {}
    /\ ProcessorErrors = {}

\* C36: a marker whose candidate list cannot be built is skipped: no backend
\* put is started, no MarkerResult is emitted, no file is deleted and no
\* error is pushed to the error sink of the pipeline.
C36_FailedMatchSkipsMarker ==
    [][/\ CandidatesFail => (upPc' = "recv" /\ NothingDone')
       /\ MatchFails(cfg.patterns) => NothingDone']_vars

\* the scan has ended after a marker was received whose candidate list could
\* not be built; its files are still there
C36_Witness ==
    /\ MatchFails(cfg.patterns)
    /\ marker # NoHit /\ marker.Path \in hist.scanned /\ fs[marker.Path] # 0
    /\ upPc = "exit" /\ rmPc = "exit" /\ echClosed
    /\ NothingDone

\* ---------------------------------------------------------------- ensureBucketExists
\* s3Handler.ensureBucketExists on one handler, called again and again as
\* newS3Handler does.  bucket.memo is bucketExists[Bucket], bucket.onServer
\* whether the object store has the bucket, bucket.calls the calls made on
\* the client with their results, bucket.ret what the last call returned.
InitBucket ==
    /\ IdlePipeline
    /\ walk = NoWalk /\ pool = NoPool /\ seqm = NoSeqm /\ bm = NoBm /\ boot = NoBoot
    /\ twalk = NoTwalk /\ cyc = NoCyc
    /\ \E b \in BOOLEAN : bucket = [NoBucket EXCEPT !.pc = "ready", !.onServer = b]

\* another client of the object store creates or deletes the bucket
ServerChange ==
    /\ bucket.pc # "idle"
    /\ bucket' = [bucket EXCEPT !.onServer = ~@]
    /\ UNCHANGED <<pipelineVars, walk, pool, seqm, bm, boot, twalk, cyc>>

\* mutant: the memo is not consulted
EnsureCall_IgnoreMemo ==
    /\ bucket.pc = "ready"
    /\ bucket.ensures < MaxEnsures
    /\ bucket' = [bucket EXCEPT !.ensures = @ + 1, !.pc = "check", !.ret = "none"]
    /\ UNCHANGED <<pipelineVars, walk, pool, seqm, bm, boot, twalk, cyc>>

\* entry of ensureBucketExists (part_007:58-65): return nil when the memo has
\* the bucket
EnsureCall ==
    /\ bucket.pc = "ready"
    /\ bucket.ensures < MaxEnsures
    /\ bucket' = IF bucket.memo
                 THEN [bucket EXCEPT !.ensures = @ + 1, !.ret = "nil"]
                 ELSE [bucket EXCEPT !.ensures = @ + 1, !.pc = "check", !.ret = "none"]
    /\ UNCHANGED <<pipelineVars, walk, pool, seqm, bm, boot, twalk, cyc>>

\* s.client.BucketExists (part_007:72-75): an error is returned as it is; a
\* bucket that exists is recorded in the memo (part_007:96-97)
EnsureCheck ==
    /\ bucket.pc = "check"
    /\ \/ bucket' = [bucket EXCEPT
             !.calls = Append(@, <<"BucketExists", "error">>),
             !.pc = "ready", !.ret = "error"]
       \/ /\ bucket.onServer
          /\ bucket' = [bucket EXCEPT
                !.calls = Append(@, <<"BucketExists", "true">>),
                !.memo = TRUE, !.pc = "ready", !.ret = "nil"]
       \/ /\ ~bucket.onServer
          /\ bucket' = [bucket EXCEPT
                !.calls = Append(@, <<"BucketExists", "false">>), !.pc = "make"]
    /\ UNCHANGED <<pipelineVars, walk, pool, seqm, bm, boot, twalk, cyc>>

\* s.client.MakeBucket (part_007:77-94) and the memo (part_007:96-97)
EnsureMake ==
    /\ bucket.pc = "make"
    /\ \/ bucket' = [bucket EXCEPT
             !.calls = Append(@, <<"MakeBucket", "error">>),
             !.pc = "ready", !.ret = "failed to create bucket"]
       \/ /\ ~bucket.onServer
          /\ bucket' = [bucket EXCEPT
                !.calls = Append(@, <<"MakeBucket", "ok">>),
                !.onServer = TRUE, !.memo = TRUE, !.pc = "ready", !.ret = "nil"]
    /\ UNCHANGED <<pipelineVars, walk, pool, seqm, bm, boot, twalk, cyc>>

NextBucket == ServerChange \/ EnsureCall \/ EnsureCheck \/ EnsureMake

SpecBucket == InitBucket /\ [][NextBucket]_vars

\* the call the client has just answered, if the step made one
ClientCalled == Len(bucket'.calls) > Len(bucket.calls)
LastCall == bucket'.calls[Len(bucket'.calls)]

\* C40: ensureBucketExists creates the bucket only after the existence check
\* has reported false, records the bucket in the memo only after a check or
\* a creation that succeeded, makes no client call once the bucket is
\* recorded, and leaves the memo unset after a failed check or creation.
C40_BucketMemo ==
    [][/\ (ClientCalled /\ LastCall[1] = "MakeBucket") =>
             /\ bucket.calls # <<>>
             /\ bucket.calls[Len(bucket.calls)] = <<"BucketExists", "false">>
       /\ (bucket'.memo /\ ~bucket.memo) =>
             /\ ClientCalled
             /\ LastCall \in {<<"BucketExists", "true">>, <<"MakeBucket", "ok">>}
             /\ bucket'.ret = "nil"
       /\ bucket.memo => (bucket'.memo /\ ~ClientCalled /\ bucket'.ret = "nil")
       /\ (ClientCalled /\ LastCall[2] = "error") =>
             (~bucket'.memo /\ bucket'.ret # "nil")]_vars

\* the bucket was created and recorded, and a later call has returned from
\* the memo without a client call
C40_Witness ==
    /\ bucket.memo /\ bucket.pc = "ready" /\ bucket.ret = "nil"
    /\ bucket.calls = <<<<"BucketExists", "false">>, <<"MakeBucket", "ok">>>>
    /\ bucket.ensures >= 2

\* ---------------------------------------------------------------- Walker.Start over a tree
\* the paths of the tree, in lexical order; "r" is the root
TreeOrder == <<"r", "r/a", "r/a/x", "r/a/y", "r/b", "r/b/z">>
Nodes == SeqToSet(TreeOrder)

\* filepath.Join(path, name) for the names a directory may hold
Entries(d) ==
    IF d = "r" THEN {"r/a", "r/b"}
    ELSE IF d = "r/a" THEN {"r/a/x", "r/a/y"}
    ELSE IF d = "r/b" THEN {"r/b/z"}
    ELSE {}

RECURSIVE Below(_)
Below(d) == Entries(d) \cup UNION {Below(c) : c \in Entries(d)}

AncestorsOrSelf(p) == {d \in Nodes : p = d \/ p \in Below(d)}

TreeRank(p) == CHOOSE i \in 1..Len(TreeOrder) : TreeOrder[i] = p

\* slices.Sort on a set of names of one directory
RECURSIVE SortNames(_)
SortNames(S) ==
    IF S = {} THEN <<>>
    ELSE LET m == CHOOSE x \in S : \A y \in S : TreeRank(x) <= TreeRank(y)
         IN <<m>> \o SortNames(S \ {m})

Reverse(q) == [i \in 1..Len(q) |-> q[Len(q) + 1 - i]]

\* the trees walked: what os.Lstat finds at each path
TreeOf(a, x, y, b, z) ==
    [n \in Nodes |->
        IF n = "r" THEN "dir" ELSE IF n = "r/a" THEN a ELSE IF n = "r/a/x" THEN x
        ELSE IF n = "r/a/y" THEN y ELSE IF n = "r/b" THEN b ELSE z]

TreeKinds ==
    { TreeOf("dir", "file", "file", "file", "none"),
      TreeOf("dir", "file", "none", "dir", "file"),
      TreeOf("dir", "none", "none", "file", "none"),
      TreeOf("file", "none", "none", "file", "none"),
      [n \in Nodes |-> "none"],
      [n \in Nodes |-> IF n = "r" THEN "file" ELSE "none"] }

\* what the callback returns
Answers == {"nil", "SkipDir", "SkipAll", "err"}

\* the callbacks tried: one that always returns nil, and those that return
\* another value for one path, at its first call or at every later call
Callbacks ==
    {[path |-> "-", later |-> FALSE, resp |-> "nil"]} \cup
    [path : Nodes, later : BOOLEAN, resp : Answers \ {"nil"}]

\* calls of the callback made for path p so far
CallsFor(p) == Cardinality({i \in 1..Len(twalk.visits) : twalk.visits[i] = p})

\* the value the callback returns for p now
Answer(p) ==
    IF twalk.answer.path = p /\ (twalk.answer.later <=> CallsFor(p) > 0)
    THEN twalk.answer.resp ELSE "nil"

\* Walker.Start returns nil for the two sentinels (part_001:64-68)
StartResult(e) == IF e \in {"nil", "SkipDir", "SkipAll"} THEN "nil" ELSE e

InitTree ==
    /\ IdlePipeline
    /\ walk = NoWalk /\ pool = NoPool /\ seqm = NoSeqm /\ bm = NoBm /\ boot = NoBoot
    /\ cyc = NoCyc /\ bucket = NoBucket
    /\ \E k \in TreeKinds, rev \in [{"r", "r/a", "r/b"} -> BOOLEAN],
          n \in 0..MaxBatch, cb \in Callbacks :
          twalk = [NoTwalk EXCEPT
             !.pc = "start", !.kind = k, !.batchSize = n, !.answer = cb,
             !.stream = [d \in Nodes |->
                 IF k[d] # "dir" THEN <<>>
                 ELSE LET q == SortNames({c \in Entries(d) : k[c] # "none"})
                      IN IF rev[d] THEN Reverse(q) ELSE q]]

Top == twalk.stack[Len(twalk.stack)]
Pop == SubSeq(twalk.stack, 1, Len(twalk.stack) - 1)

\* Walker.Start (part_001:54-69): os.Lstat(root); the callback is called for
\* a root that is missing and, through walk, for a root that is not a
\* directory (part_001:85-87); a directory is walked
TwStart ==
    /\ twalk.pc = "start"
    /\ IF twalk.kind["r"] = "dir"
       THEN twalk' = [twalk EXCEPT
               !.pc = "walking",
               !.stack = <<[path |-> "r", names |-> <<>>, phase |-> "read"]>>]
       ELSE twalk' = [twalk EXCEPT
               !.pc = "done", !.visits = Append(@, "r"),
               !.result = StartResult(Answer("r"))]
    /\ UNCHANGED <<pipelineVars, walk, pool, seqm, bm, boot, cyc, bucket>>

\* one turn of the loop of walk for the directory on top (part_001:89-106):
\* readDirEntries opens the directory if it is not open, reads the next
\* batchSize names of its stream (all of them for batchSize <= 0), closes it
\* when nothing was read and sorts the names (part_001:142-159, 171-215);
\* then the callback is called for the directory, and walk returns what it
\* returned unless that is nil, or nil when no name was read
TwReadDir ==
    /\ twalk.pc = "walking" /\ twalk.ret = "none" /\ Top.phase = "read"
    /\ LET d == Top.path
           left == twalk.stream[d]
           n == IF twalk.batchSize <= 0 \/ twalk.batchSize > Len(left)
                THEN Len(left) ELSE twalk.batchSize
           names == SortNames(SeqToSet(SubSeq(left, 1, n)))
           e == Answer(d)
       IN twalk' = [twalk EXCEPT
             !.stream[d] = SubSeq(left, n + 1, Len(left)),
             !.opened = IF n = 0 THEN @ \ {d} ELSE @ \cup {d},
             !.batches = Append(@, <<d, n>>),
             !.visits = Append(@, d),
             !.ret = IF e # "nil" THEN e ELSE IF n = 0 THEN "nil" ELSE "none",
             !.stack = IF e # "nil" \/ n = 0 THEN Pop
                       ELSE [@ EXCEPT ![Len(@)] =
                               [path |-> d, names |-> names, phase |-> "iter"]]]
    /\ UNCHANGED <<pipelineVars, walk, pool, seqm, bm, boot, cyc, bucket>>

\* the next name of the batch (part_001:108-124): os.Lstat; for a file walk
\* calls the callback and any value but nil ends the walk of the directory;
\* for a directory walk goes down
TwEntry ==
    /\ twalk.pc = "walking" /\ twalk.ret = "none" /\ Top.phase = "iter"
    /\ Top.names # <<>>
    /\ LET c == Head(Top.names)
           rest == Tail(Top.names)
           e == Answer(c)
           here == [path |-> Top.path, names |-> rest,
                    phase |-> IF rest = <<>> /\ twalk.kind[c] # "dir" THEN "read" ELSE "iter"]
       IN IF twalk.kind[c] = "dir"
          THEN twalk' = [twalk EXCEPT
                  !.stack = Append([@ EXCEPT ![Len(@)] = here],
                                   [path |-> c, names |-> <<>>, phase |-> "read"])]
          ELSE twalk' = [twalk EXCEPT
                  !.visits = Append(@, c),
                  !.ret = IF e = "nil" THEN "none" ELSE e,
                  !.stack = IF e = "nil" THEN [@ EXCEPT ![Len(@)] = here] ELSE Pop]
    /\ UNCHANGED <<pipelineVars, walk, pool, seqm, bm, boot, cyc, bucket>>

\* a call of walk has returned (part_001:115-121, 64-68): to the walk of the
\* parent, which goes on after nil and after SkipDir from a directory and
\* returns any other value; or to Start
TwReturn ==
    /\ twalk.pc = "walking" /\ twalk.ret # "none"
    /\ IF twalk.stack = <<>>
       THEN twalk' = [twalk EXCEPT !.pc = "done", !.ret = "none",
                                   !.result = StartResult(twalk.ret)]
       ELSE IF twalk.ret \in {"nil", "SkipDir"}
       THEN twalk' = [twalk EXCEPT
               !.ret = "none",
               !.stack = [@ EXCEPT ![Len(@)].phase =
                             IF Top.names = <<>> THEN "read" ELSE "iter"]]
       ELSE twalk' = [twalk EXCEPT !.stack = Pop]
    /\ UNCHANGED <<pipelineVars, walk, pool, seqm, bm, boot, cyc, bucket>>

NextTree == TwStart \/ TwReadDir \/ TwEntry \/ TwReturn

SpecTree == InitTree /\ [][NextTree]_vars

\* the paths Start is to report: the root and what the tree holds below it
Present == {"r"} \cup {n \in Nodes : twalk.kind[n] # "none"}

\* the first call of the callback for p
FirstVisit(p) == CHOOSE i \in 1..Len(twalk.visits) :
                    twalk.visits[i] = p /\ \A j \in 1..(i - 1) : twalk.visits[j] # p

\* a callback that returns nil at every call
NeverSkips == twalk.answer.resp = "nil"

VisitedOnce == \A p \in Present : CallsFor(p) = 1

PreOrder ==
    \A d \in Present : \A c \in Below(d) \cap Present :
        CallsFor(c) > 0 => CallsFor(d) > 0 /\ FirstVisit(d) < FirstVisit(c)

\* C37: when Start has returned and the callback never returned anything but
\* nil, the callback was called exactly once for the root and exactly once for
\* every descendant, and for each directory before any of its entries, with
\* every batch size
C37_EachPathOnceInPreOrder ==
    (twalk.pc = "done" /\ NeverSkips) => VisitedOnce /\ PreOrder

\* what does hold of C37: every path is reported at least once, a file
\* exactly once, and a directory first before any of its entries
C37_EachPathAtLeastOnceInPreOrder ==
    (twalk.pc = "done" /\ NeverSkips) =>
        /\ \A p \in Present : CallsFor(p) >= 1
        /\ \A p \in Present : twalk.kind[p] # "dir" => CallsFor(p) = 1
        /\ PreOrder

\* the calls at which the callback returned resp
ReturnedAt(resp) ==
    {i \in 1..Len(twalk.visits) :
        /\ twalk.answer.resp = resp
        /\ twalk.visits[i] = twalk.answer.path
        /\ twalk.answer.later <=> \E j \in 1..(i - 1) : twalk.visits[j] = twalk.visits[i]}

\* the other entries of the directory that holds p
Siblings(p) == {s \in Present \ {p} : \E d \in Nodes : {p, s} \subseteq Entries(d)}

\* SkipDir returned for directory d: no entry of d is visited, and the walk
\* goes on with the other entries of d's parent
Pruned(d) ==
    /\ \A c \in Below(d) : CallsFor(c) = 0
    /\ twalk.pc = "done" => \A s \in Siblings(d) : CallsFor(s) >= 1

\* C38: when the callback returns filepath.SkipDir for a directory, none of
\* the directory's entries are visited and the traversal continues with its
\* siblings; when it returns filepath.SkipAll no further call of the callback
\* is made; in both cases Start returns nil
C38_SkipDirPrunesSkipAllEnds ==
    /\ \A i \in ReturnedAt("SkipDir") :
          twalk.kind[twalk.visits[i]] = "dir" => Pruned(twalk.visits[i])
    /\ \A i \in ReturnedAt("SkipAll") : i = Len(twalk.visits)
    /\ (twalk.pc = "done" /\ ReturnedAt("SkipDir") \cup ReturnedAt("SkipAll") # {})
          => twalk.result = "nil"

\* what does hold of C38: SkipDir returned at the first call for a directory
\* prunes it; returned at a later call it ends the walk of the directory, so
\* that no entry is visited after it; the parts on SkipAll and on the result
C38_SkipDirEndsDirectory ==
    /\ \A i \in ReturnedAt("SkipDir") :
          twalk.kind[twalk.visits[i]] = "dir" =>
             /\ ~twalk.answer.later => Pruned(twalk.visits[i])
             /\ \A j \in (i + 1)..Len(twalk.visits) :
                   twalk.visits[j] \notin Below(twalk.visits[i]) \cup {twalk.visits[i]}
             /\ twalk.pc = "done" => \A s \in Siblings(twalk.visits[i]) : CallsFor(s) >= 1
    /\ \A i \in ReturnedAt("SkipAll") : i = Len(twalk.visits)
    /\ (twalk.pc = "done" /\ ReturnedAt("SkipDir") \cup ReturnedAt("SkipAll") # {})
          => twalk.result = "nil"

\* the path the callback was last called for
CurrentPath == twalk.visits[Len(twalk.visits)]

HandlesOfAncestors ==
    (twalk.pc = "walking" /\ twalk.visits # <<>>) =>
        twalk.opened \subseteq AncestorsOrSelf(CurrentPath)

BatchesBounded ==
    \A i \in 1..Len(twalk.batches) :
        twalk.batchSize > 0 => twalk.batches[i][2] <= twalk.batchSize

\* a read that returned no name has closed the handle and removed it
ClosedWhenExhausted ==
    \A i \in 1..Len(twalk.batches) :
        twalk.batches[i][2] = 0 => twalk.batches[i][1] \notin twalk.opened

\* C39: at every point of a traversal the open directory handles of the walker
\* belong to directories that are ancestors of, or equal to, the path being
\* visited; every read of a directory returns at most batchSize names; and the
\* handle of a directory is closed and removed from the map once its listing
\* is exhausted
C39_HandlesOfAncestorsOnly ==
    HandlesOfAncestors /\ BatchesBounded /\ ClosedWhenExhausted

\* what does hold of C39: the bound of the batches and the closing of an
\* exhausted directory always, the handles of ancestors as long as the
\* callback has not returned SkipDir
C39_HandlesOfAncestorsUnlessSkipDir ==
    /\ ReturnedAt("SkipDir") = {} => HandlesOfAncestors
    /\ BatchesBounded /\ ClosedWhenExhausted

\* ---------------------------------------------------------------- scan cycles on one walker
\* the scan root holds the directory r/a, which holds one file
ScanDirs == {"r", "r/a"}

\* names in the listing of a directory
ListingLen(d) == 1

\* the handle of w.opened for directory d, if any
HandleOf(d) == {h \in cyc.opened : h.dir = d}

InitCyc ==
    /\ IdlePipeline
    /\ walk = NoWalk /\ pool = NoPool /\ seqm = NoSeqm /\ bm = NoBm /\ boot = NoBoot
    /\ twalk = NoTwalk /\ bucket = NoBucket
    /\ cyc = [NoCyc EXCEPT !.sup = "loop"]

\* SIGINT / SIGTERM: runUpload calls cancelFunc (upload.go:113-116)
CycCancel ==
    /\ cyc.sup # "idle" /\ ~cyc.ctxDone
    /\ cyc' = [cyc EXCEPT !.ctxDone = TRUE]
    /\ UNCHANGED <<pipelineVars, walk, pool, seqm, bm, boot, twalk, bucket>>

\* top of the loop of startPipeline (upload.go:184-194): return when ctx is
\* done, else scanner.Scan starts the goroutine of the next cycle
\* (handler.go:186-189)
CycStart ==
    /\ cyc.sup = "loop"
    /\ IF cyc.ctxDone
       THEN cyc' = [cyc EXCEPT !.sup = "returned"]
       ELSE /\ cyc.cycle < MaxCycles
            /\ cyc' = [cyc EXCEPT !.sup = "collect", !.cycle = @ + 1,
                                  !.scan = Append(@, [pc |-> "walking", at |-> "r"])]
    /\ UNCHANGED <<pipelineVars, walk, pool, seqm, bm, boot, twalk, bucket>>

\* `for err := range ech` ends (upload.go:224-231) when the joiner has closed
\* ech, which it does when the processors have returned (upload.go:209-221):
\* after items was closed (processor.go:187), or after ctx was cancelled;
\* then the supervisor sleeps (upload.go:246; the pipeline polls)
CycCollect ==
    /\ cyc.sup = "collect"
    /\ cyc.scan[cyc.cycle].pc \in {"ending", "ended"} \/ cyc.ctxDone
    /\ cyc' = [cyc EXCEPT !.sup = "sleep"]
    /\ UNCHANGED <<pipelineVars, walk, pool, seqm, bm, boot, twalk, bucket>>

\* time.Sleep(delay) is over (upload.go:246)
CycWake ==
    /\ cyc.sup = "sleep"
    /\ cyc' = [cyc EXCEPT !.sup = "loop"]
    /\ UNCHANGED <<pipelineVars, walk, pool, seqm, bm, boot, twalk, bucket>>

\* one readDirEntries of the traversal of cycle n (part_001:89-125, 142-159):
\* getOrOpenFile takes the handle of the map or opens the directory anew; a
\* handle that has names left returns the next one, and walk goes down into
\* r/a or calls the callback for the file; one that has none is closed and
\* removed, and walk returns to the parent
CycRead(n) ==
    /\ cyc.scan[n].pc = "walking"
    /\ LET d == cyc.scan[n].at
           h == IF HandleOf(d) # {} THEN CHOOSE x \in HandleOf(d) : TRUE
                ELSE [dir |-> d, owner |-> n, off |-> 0]
           others == cyc.opened \ HandleOf(d)
       IN IF h.off < ListingLen(d)
          THEN cyc' = [cyc EXCEPT
                  !.opened = others \cup {[h EXCEPT !.off = @ + 1]},
                  !.scan[n].at = "r/a"]
          ELSE cyc' = [cyc EXCEPT
                  !.opened = others,
                  !.scan[n] = IF d = "r" THEN [pc |-> "returned", at |-> "r"]
                              ELSE [pc |-> "walking", at |-> "r"]]
    /\ UNCHANGED <<pipelineVars, walk, pool, seqm, bm, boot, twalk, bucket>>

\* Start has returned: the deferred close(items) runs (handler.go:190)
CycCloseItems(n) ==
    /\ cyc.scan[n].pc = "returned"
    /\ cyc' = [cyc EXCEPT !.scan[n].pc = "ending"]
    /\ UNCHANGED <<pipelineVars, walk, pool, seqm, bm, boot, twalk, bucket>>

\* the deferred s.walker.End() runs last (handler.go:189, part_001:224-237):
\* every handle of the map is closed and the map is replaced by an empty one
CycEnd(n) ==
    /\ cyc.scan[n].pc = "ending"
    /\ cyc' = [cyc EXCEPT
          !.scan[n].pc = "ended",
          !.opened = {},
          !.lost = @ \cup {h \in cyc.opened : h.owner > n}]
    /\ UNCHANGED <<pipelineVars, walk, pool, seqm, bm, boot, twalk, bucket>>

CycScanner == \E n \in 1..Len(cyc.scan) : CycRead(n) \/ CycCloseItems(n) \/ CycEnd(n)

NextCyc == CycCancel \/ CycStart \/ CycCollect \/ CycWake \/ CycScanner

SpecCyc == InitCyc /\ [][NextCyc]_vars

\* End of cycle m has completed
Ended(m) == cyc.scan[m].pc = "ended"

\* C32: the End of one scan cycle has completed before the traversal of a
\* later cycle opens a directory handle on the same walker, and End never
\* closes or discards a handle that belongs to a later traversal
C32_EndBeforeNextTraversal ==
    /\ \A h \in cyc.opened : \A m \in 1..(h.owner - 1) : Ended(m)
    /\ cyc.lost = {}
====
